---- MODULE Spec2Model ----
(***************************************************************************)
(* Model of the agent-dog / AgentFlow observability server:                *)
(*   Store      src/src/db/index.ts   (sessions and events tables)         *)
(*   Normalizer src/src/normalize.ts                                       *)
(*   Ingest and query routes  src/src/routes.ts                            *)
(*   Realtime gateway         src/unnamed/part_020 (server-factory)        *)
(*   Auth                     src/unnamed/part_019                         *)
(*   Cron runner              src/src/cron/manager.ts                      *)
(*                                                                         *)
(* The server is one JavaScript process: a handler runs without            *)
(* interruption between two awaits, bun:sqlite calls and socket.io emits   *)
(* are synchronous.  Each action below is one such uninterrupted stretch.  *)
(*                                                                         *)
(* Session ids are strings in the code.  They are pairs <<text, n>> here   *)
(* so that the id of a cron run, `cron-${job.id.slice(0,8)}-${Date.now()}`,*)
(* can carry the clock value it was built from.                            *)
(***************************************************************************)
EXTENDS Integers, Sequences, FiniteSets, TLC

\* ------------------------------------------------------------------ bounds
\* number of event ids generateId / makeEvent may hand out in one behaviour
MaxIds == 8
\* the same, in the specifications with realtime clients
MaxLiveIds == 4
\* firings skipped and triggers refused, each, while a job is running
MaxSkips == 1
\* requests served in the specification of the Store alone
MaxStoreReqs == 3
\* event ids handed out in the specification of the reads
MaxReadIds == 2
\* event ids handed out in the specification of the admission
MaxAuthIds == 2
\* largest explicit timestamp a producer puts in a payload
MaxTs == 1
\* session:events snapshots one socket is sent (subscribe commands it issues)
MaxSubs == 1
\* subscribe requests of one socket, in all
MaxResubs == 2
\* tool_use blocks in one chat response of a cron run
MaxTools == 1
\* clock: number of 1 ms ticks within one timeout period, and of whole periods
MaxMs == 1
MaxLong == 1
\* number of DELETE requests served in one behaviour
MaxDeletes == 1
\* analysis runs started, insights stored, questions of one analysis
MaxRuns == 2
MaxInsights == 1
MaxQuestions == 2
\* calls of the source manager in flight at once, and begun in all
MaxCalls == 2
MaxSourceOps == 3

\* -------------------------------------------------------- program constants
STALE_TIMEOUT == 120000
\* variant: the chat loop runs one more iteration
MAX_ITERATIONS_AND_ONE == 15 + 1
MAX_ITERATIONS == 15
DEFAULT_MAX_QUESTION_ROUNDS == 3
MAX_OUTPUT_SIZE == 10000

\* a value that is null / undefined in the code
NULL == "null"
\* event.timestamp absent from the raw payload
NoTimestamp == 0 - 1
NoRow == [absent |-> TRUE]

VARIABLES
  clock,        \* Date.now()
  sessions,     \* table sessions: id -> row
  events,       \* table events, in rowid (insertion) order
  nextId,       \* crypto.randomUUID(): ids are fresh, numbered as handed out
  connected,    \* socket -> is it connected
  rooms,        \* socket -> set of session ids whose room it has joined
  inbox,        \* socket -> messages written to it, in order
  published,    \* every io-level emit, in order (history)
  appendLog,    \* ids of all events inserted, in insertion order (history)
  accepted,     \* session id -> ingest requests answered 200 since its row was created (history)
  resp,         \* the last HTTP response
  authEnabled,  \* createServer option authEnabled
  running,      \* cron manager: Set of job ids
  cronRun,      \* job id -> state of its executeCronJob call
  cronJobs,     \* table cron_jobs: id -> row
  isAnalyzing,  \* insight scheduler: an analysis run is in progress
  analysis,     \* insight scheduler: state of the runAnalysisJob call
  insights,     \* table insights, by id
  questions,    \* table of the questions put to users, by id
  refining,     \* thread:ready handlers waiting for runRefinement
  sourceMgr     \* createSourceManager: the source's row, the listeners map, calls in flight

storeVars == <<sessions, events, nextId, appendLog, accepted>>
rtVars == <<connected, rooms, inbox, published>>
cronVars == <<running, cronRun, cronJobs>>
insightVars == <<isAnalyzing, analysis, insights, questions, refining>>
vars == <<clock, sessions, events, nextId, connected, rooms, inbox, published,
          appendLog, accepted, resp, authEnabled, sourceMgr, running, cronRun, cronJobs,
          isAnalyzing, analysis, insights, questions, refining>>

\* ------------------------------------------------------------- value sets
Clients == {"c1", "c2"}
Jobs == {"j1"}
ExtSessionIds == {<<"S1", 0>>, <<"S2", 0>>}
\* all cron jobs of the table; Jobs are those the realtime specifications run
AllJobs == {"j1", "j2"}
\* `cron-${job.id.slice(0, 8)}`
CronPrefix(j) == IF j = "j1" THEN "cron-j1" ELSE "cron-j2"
CronSessionId(j, now) == <<CronPrefix(j), now>>

\* ---------------------------------------------------------------- helpers
RECURSIVE SelectSeq2(_, _)
\* indices i of seq (ascending) with seq[i].sessionId = sid, as a sequence of events
SelectSeq2(seq, sid) ==
  IF seq = <<>> THEN <<>>
  ELSE IF Head(seq).sessionId = sid
       THEN <<Head(seq)>> \o SelectSeq2(Tail(seq), sid)
       ELSE SelectSeq2(Tail(seq), sid)

Range(seq) == {seq[i] : i \in 1..Len(seq)}

\* ------------------------------------------------------------- normalize.ts
generateId == nextId

\* hookEvent = event.hook_event_name ?? event.event ?? event.type ?? ''
hookEventOf(event) ==
  IF event.hook_event_name # NULL THEN event.hook_event_name
  ELSE IF event.event # NULL THEN event.event
  ELSE IF event.type # NULL THEN event.type
  ELSE ""

\* a tool output as truncate sees it: chars is the length of its serialised
\* form (the string itself, or JSON.stringify of it), kept the number of
\* leading characters of it that the value holds, marker the text after them
Value(n) == [chars |-> n, kept |-> n, marker |-> "none"]
\* null or undefined
NoValue == [chars |-> 0 - 1, kept |-> 0 - 1, marker |-> "none"]

RECURSIVE Digits(_)
\* the length of `${n}`
Digits(n) == IF n < 10 THEN 1 ELSE 1 + Digits(n \div 10)

\* the length of the text after the kept characters
MarkerLength(value) ==
  CASE value.marker = "... [truncated, N chars total]" -> 16 + Digits(value.chars) + 13
    [] value.marker = "\n... (truncated)" -> 16
    [] OTHER -> 0

\* str.length of a value
StrLength(value) == value.kept + MarkerLength(value)

truncate(value) ==
  IF value = NoValue THEN value
  ELSE IF StrLength(value) > MAX_OUTPUT_SIZE
  THEN [chars |-> StrLength(value), kept |-> MAX_OUTPUT_SIZE, marker |-> "... [truncated, N chars total]"]
  ELSE value

\* a ?? b on strings
orElse(a, b) == IF a # NULL THEN a ELSE b
\* a ?? b on tool outputs
orElseValue(a, b) == IF a # NoValue THEN a ELSE b

\* event.item ?? {}
itemOf(event) ==
  [type |-> event.itemType, command |-> event.itemCommand, file |-> event.itemFile,
   patch |-> event.itemPatch, content |-> event.itemContent, output |-> event.itemOutput]

baseEvent(payload, now, src, type) ==
  [id |-> generateId,
   sessionId |-> payload.sessionId,
   timestamp |-> IF payload.event.timestamp # NoTimestamp THEN payload.event.timestamp ELSE now,
   source |-> src,
   category |-> "system",
   type |-> type,
   role |-> NULL,
   text |-> NULL,
   toolName |-> NULL,
   toolInput |-> NULL,
   toolOutput |-> NoValue,
   error |-> NULL,
   meta |-> <<>>]

\* variant: Stop takes its text from response before result
stopTextResponseFirst(event) == orElse(event.response, event.result)

\* event.result ?? event.response ?? null
stopText(event) == orElse(event.result, event.response)

normalizeClaudeCode(payload, now) ==
  LET event == payload.event
      hookEvent == hookEventOf(event)
      base == baseEvent(payload, now, "claude-code", hookEvent)
  IN CASE hookEvent \in {"SessionStart", "session.start"} ->
            [base EXCEPT !.category = "session", !.type = "session.start"]
       [] hookEvent = "Stop" ->
            [base EXCEPT !.category = "message", !.type = "message.assistant",
                         !.role = "assistant",
                         !.text = stopText(event),
                         !.meta = IF event.stop_reason \notin {NULL, ""}
                                  THEN [stop_reason |-> event.stop_reason] ELSE <<>>]
       [] hookEvent \in {"SessionEnd", "session.end"} ->
            [base EXCEPT !.category = "session", !.type = "session.end"]
       [] hookEvent \in {"UserPromptSubmit", "message.user"} ->
            [base EXCEPT !.category = "message", !.type = "message.user",
                         !.role = "user",
                         !.text = orElse(event.user_message, orElse(event.message,
                                    orElse(event.text, event.prompt)))]
       [] hookEvent \in {"PreToolUse", "tool.start"} ->
            [base EXCEPT !.category = "tool", !.type = "tool.start",
                         !.toolName = orElse(event.tool_name, event.toolName),
                         !.toolInput = orElse(event.tool_input, event.toolInput)]
       [] hookEvent \in {"PostToolUse", "tool.end"} ->
            [base EXCEPT !.category = "tool", !.type = "tool.end",
                         !.toolName = orElse(event.tool_name, event.toolName),
                         !.toolInput = orElse(event.tool_input, event.toolInput),
                         !.toolOutput = truncate(orElseValue(event.tool_response,
                                          orElseValue(event.tool_output, event.toolOutput)))]
       [] hookEvent = "message.assistant" ->
            [base EXCEPT !.category = "message", !.type = "message.assistant",
                         !.role = "assistant",
                         !.text = orElse(event.message, event.text)]
       [] hookEvent \in {"Error", "error"} ->
            [base EXCEPT !.category = "error", !.type = "error",
                         !.error = orElse(event.error, event.message)]
       [] OTHER -> [base EXCEPT !.meta = [rawEvent |-> event]]

\* variant: item.completed stores the output as it came
codexOutputUntruncated(value) == value

\* truncate(item.output ?? null), truncate(item.patch ?? null)
codexOutput(value) == truncate(value)

normalizeCodex(payload, now) ==
  LET event == payload.event
      eventType == IF event.type # NULL THEN event.type ELSE ""
      item == itemOf(event)
      itemType == IF item.type # NULL THEN item.type ELSE ""
      base == baseEvent(payload, now, "codex", eventType)
  IN CASE eventType = "thread.started" ->
            [base EXCEPT !.category = "session", !.type = "session.start"]
       [] eventType = "turn.started" ->
            [base EXCEPT !.category = "system", !.type = "turn.start"]
       [] eventType = "turn.completed" ->
            [base EXCEPT !.category = "session", !.type = "session.end"]
       [] eventType = "item.started" ->
            IF itemType = "command_execution"
            THEN [base EXCEPT !.category = "tool", !.type = "tool.start",
                              !.toolName = "command_execution",
                              !.toolInput = item.command]
            ELSE IF itemType = "file_change"
            THEN [base EXCEPT !.category = "tool", !.type = "tool.start",
                              !.toolName = "file_change",
                              !.toolInput = [file |-> item.file, patch |-> item.patch]]
            ELSE IF itemType = "agent_message"
            THEN [base EXCEPT !.category = "message", !.type = "message.assistant",
                              !.role = "assistant", !.text = item.content]
            ELSE [base EXCEPT !.meta = [item |-> item]]
       [] eventType = "item.completed" ->
            IF itemType = "command_execution"
            THEN [base EXCEPT !.category = "tool", !.type = "tool.end",
                              !.toolName = "command_execution",
                              !.toolOutput = codexOutput(item.output)]
            ELSE IF itemType = "file_change"
            THEN [base EXCEPT !.category = "tool", !.type = "tool.end",
                              !.toolName = "file_change",
                              !.toolOutput = codexOutput(item.patch)]
            ELSE IF itemType = "agent_message"
            THEN [base EXCEPT !.category = "message", !.type = "message.assistant",
                              !.role = "assistant", !.text = item.content]
            ELSE [base EXCEPT !.meta = [item |-> item]]
       [] eventType = "error" ->
            [base EXCEPT !.category = "error", !.type = "error",
                         !.error = orElse(event.message, event.error)]
       [] OTHER -> [base EXCEPT !.meta = [rawEvent |-> event]]

normalize(payload, now) ==
  IF payload.source = "codex" THEN normalizeCodex(payload, now)
  ELSE normalizeClaudeCode(payload, now)

\* ------------------------------------------------------------- db/index.ts
\* variant: the new row's times are taken from the clock, not from the event
upsertSessionClock(sess, event) ==
  IF event.sessionId \notin DOMAIN sess
  THEN sess @@ (event.sessionId :>
         [source |-> event.source,
          startTime |-> clock,
          lastEventTime |-> clock,
          status |-> "active",
          metadata |-> <<>>])
  ELSE [sess EXCEPT ![event.sessionId].lastEventTime = event.timestamp]

\* addEvent, "Upsert session": insert the row, or refresh lastEventTime
upsertSession(sess, event) ==
  IF event.sessionId \notin DOMAIN sess
  THEN sess @@ (event.sessionId :>
         [source |-> event.source,
          startTime |-> event.timestamp,
          lastEventTime |-> event.timestamp,
          status |-> "active",
          metadata |-> <<>>])
  ELSE [sess EXCEPT ![event.sessionId].lastEventTime = event.timestamp]

\* variant: no reactivation of a completed session
applyStatusRulesNoReactivate(sess, existing, event) ==
  IF event.type = "session.end"
  THEN [sess EXCEPT ![event.sessionId].status = "completed",
                    ![event.sessionId].lastEventTime = event.timestamp]
  ELSE IF event.category = "error"
  THEN [sess EXCEPT ![event.sessionId].status = "error",
                    ![event.sessionId].lastEventTime = event.timestamp]
  ELSE sess

\* variant: an event that is neither session.end nor an error reactivates a
\* session whose stored status is error as well
applyStatusRulesReactivateError(sess, existing, event) ==
  IF event.type = "session.end"
  THEN [sess EXCEPT ![event.sessionId].status = "completed",
                    ![event.sessionId].lastEventTime = event.timestamp]
  ELSE IF event.category = "error"
  THEN [sess EXCEPT ![event.sessionId].status = "error",
                    ![event.sessionId].lastEventTime = event.timestamp]
  ELSE IF existing # NoRow /\ existing.status \in {"completed", "error"}
  THEN [sess EXCEPT ![event.sessionId].status = "active",
                    ![event.sessionId].lastEventTime = event.timestamp]
  ELSE sess

\* addEvent, "Update session status based on event"; existing is the row read
\* before the upsert (NoRow when there was none)
applyStatusRules(sess, existing, event) ==
  IF event.type = "session.end"
  THEN [sess EXCEPT ![event.sessionId].status = "completed",
                    ![event.sessionId].lastEventTime = event.timestamp]
  ELSE IF event.category = "error"
  THEN [sess EXCEPT ![event.sessionId].status = "error",
                    ![event.sessionId].lastEventTime = event.timestamp]
  ELSE IF existing # NoRow /\ existing.status = "completed"
  THEN [sess EXCEPT ![event.sessionId].status = "active",
                    ![event.sessionId].lastEventTime = event.timestamp]
  ELSE sess

\* variant: an event equal to a stored one in everything but its id is not inserted
insertEventOnce(evs, event) ==
  IF \E i \in 1..Len(evs) : [evs[i] EXCEPT !.id = event.id] = event
  THEN evs
  ELSE Append(evs, event)

\* addEvent, "Insert event"
insertEvent(evs, event) == Append(evs, event)

\* a JSON object or array where the driver binds a text parameter
ObjectValue == "{object}"

\* the insert into events throws: bun:sqlite binds strings, numbers, booleans,
\* bigints, typed arrays and null, and nothing else, to a text column
insertThrows(event) ==
  ObjectValue \in {event.type, event.text, event.toolName, event.error}

\* addEvent(event): the tables afterwards, and whether the call threw; every
\* statement commits by itself, the insert into events is the last one
addEvent(sess, evs, event) ==
  LET existing == IF event.sessionId \in DOMAIN sess THEN sess[event.sessionId] ELSE NoRow
  IN [sessions |-> applyStatusRules(upsertSession(sess, event), existing, event),
      events |-> IF insertThrows(event) THEN evs ELSE insertEvent(evs, event),
      threw |-> insertThrows(event)]

\* variant: a session is stale as soon as STALE_TIMEOUT has passed
deriveStatusAtTimeout(status, lastEventTime, now) ==
  IF status = "error" THEN "error"
  ELSE IF status = "completed" THEN "completed"
  ELSE IF now - lastEventTime >= STALE_TIMEOUT THEN "completed"
  ELSE "active"

deriveStatus(status, lastEventTime, now) ==
  IF status = "error" THEN "error"
  ELSE IF status = "completed" THEN "completed"
  ELSE IF now - lastEventTime > STALE_TIMEOUT THEN "completed"
  ELSE "active"

RECURSIVE insertBeforeEqual(_, _)
\* variant: e goes before the elements of equal timestamp
insertBeforeEqual(sorted, e) ==
  IF sorted = <<>> THEN <<e>>
  ELSE IF Head(sorted).timestamp < e.timestamp
       THEN <<Head(sorted)>> \o insertBeforeEqual(Tail(sorted), e)
       ELSE <<e>> \o sorted

RECURSIVE insertByTimestamp(_, _)
\* place e after every element whose timestamp is <= e.timestamp
insertByTimestamp(sorted, e) ==
  IF sorted = <<>> THEN <<e>>
  ELSE IF Head(sorted).timestamp <= e.timestamp
       THEN <<Head(sorted)>> \o insertByTimestamp(Tail(sorted), e)
       ELSE <<e>> \o sorted

RECURSIVE orderByTimestamp(_)
\* ORDER BY timestamp over idx_events_session (session_id, timestamp): index
\* entries with equal keys are in rowid order, so ties keep insertion order
orderByTimestamp(seq) ==
  IF seq = <<>> THEN <<>>
  ELSE insertByTimestamp(orderByTimestamp(SubSeq(seq, 1, Len(seq) - 1)), seq[Len(seq)])

getSessionEventsOf(evs, sessionId) == orderByTimestamp(SelectSeq2(evs, sessionId))

getSessionEvents(sessionId) == getSessionEventsOf(events, sessionId)

\* ORDER BY timestamp DESC LIMIT 1: the last entry of the index range
lastEventTypeOf(evs, id) ==
  LET ordered == getSessionEventsOf(evs, id)
  IN IF ordered = <<>> THEN NULL ELSE ordered[Len(ordered)].type

sessionView(sess, evs, id, now) ==
  [id |-> id,
   source |-> sess[id].source,
   startTime |-> sess[id].startTime,
   lastEventTime |-> sess[id].lastEventTime,
   status |-> deriveStatus(sess[id].status, sess[id].lastEventTime, now),
   lastEventType |-> lastEventTypeOf(evs, id),
   eventCount |-> Len(SelectSeq2(evs, id)),
   metadata |-> sess[id].metadata]

getSessionOf(sess, evs, id, now) ==
  IF id \notin DOMAIN sess THEN NoRow ELSE sessionView(sess, evs, id, now)

getSession(id) == getSessionOf(sessions, events, id, clock)

RECURSIVE orderByLastEventTimeDesc(_, _)
\* ORDER BY last_event_time DESC; the order among equal times is the engine's
orderByLastEventTimeDesc(sess, ids) ==
  IF ids = {} THEN <<>>
  ELSE LET top == CHOOSE i \in ids : \A k \in ids : sess[i].lastEventTime >= sess[k].lastEventTime
       IN <<top>> \o orderByLastEventTimeDesc(sess, ids \ {top})

listSessions ==
  LET ids == orderByLastEventTimeDesc(sessions, DOMAIN sessions)
  IN [i \in 1..Len(ids) |-> sessionView(sessions, events, ids[i], clock)]

\* { ...existing, ...meta }: keys of meta override, the others are kept
updateSessionMeta(sess, id, meta) ==
  IF id \notin DOMAIN sess THEN sess
  ELSE [sess EXCEPT ![id].metadata = meta @@ sess[id].metadata]

RECURSIVE dropSession(_, _)
dropSession(evs, id) ==
  IF evs = <<>> THEN <<>>
  ELSE IF Head(evs).sessionId = id THEN dropSession(Tail(evs), id)
       ELSE <<Head(evs)>> \o dropSession(Tail(evs), id)

\* variant: the row goes, the events of the session stay
deleteSessionRowOnly(sess, evs, id) ==
  [sessions |-> [k \in DOMAIN sess \ {id} |-> sess[k]],
   events |-> evs]

\* deleteSession(id): the events of the session, then its row
deleteSession(sess, evs, id) ==
  [sessions |-> [k \in DOMAIN sess \ {id} |-> sess[k]],
   events |-> dropSession(evs, id)]

\* variant: the rows of the sessions table go, the events stay
clearAllSessionsOnly == [sessions |-> <<>>, events |-> events]

\* clearAll(): all events, then all sessions
clearAll == [sessions |-> <<>>, events |-> <<>>]

\* ------------------------------------------------ auth (src/unnamed/part_019)
\* auth.api.verifyApiKey / auth.api.getSession: the identity provider's verdict
\* is part of the credential presented ("valid" / "invalid")
Creds == [apiKey : {NULL, "valid", "invalid"}, cookie : {NULL, "valid", "invalid"}]
ValidCred == [apiKey |-> "valid", cookie |-> NULL]
NoCred == [apiKey |-> NULL, cookie |-> NULL]

\* variant: the presence of an x-api-key header authenticates
authenticateRequestAnyKey(cred) ==
  IF cred.apiKey # NULL
  THEN [authenticated |-> TRUE, userId |-> "u-key"]
  ELSE IF cred.cookie = "valid"
       THEN [authenticated |-> TRUE, userId |-> "u-cookie"]
       ELSE [authenticated |-> FALSE, userId |-> NULL]

authenticateRequest(cred) ==
  IF cred.apiKey # NULL
  THEN IF cred.apiKey = "valid"
       THEN [authenticated |-> TRUE, userId |-> "u-key"]
       ELSE [authenticated |-> FALSE, userId |-> NULL]
  ELSE IF cred.cookie = "valid"
       THEN [authenticated |-> TRUE, userId |-> "u-cookie"]
       ELSE [authenticated |-> FALSE, userId |-> NULL]

\* admission in front of the router and in the socket handshake
Admitted(cred) == ~authEnabled \/ authenticateRequest(cred).authenticated

\* a response: status, what the body says, and the session summaries it carries
Unauthorized == [status |-> 401, body |-> "Unauthorized", data |-> <<>>]
Ok == [status |-> 200, body |-> "ok", data |-> <<>>]

\* ------------------------------------------------------- socket.io emits
GlobalRoom == <<"global", 0>>
Msg(name, data) == [name |-> name, data |-> data]
Pub(room, name, data) == [room |-> room, name |-> name, data |-> data]

\* variant: the message goes to every connected socket, whatever its rooms
roomEmitAll(ib, rm, id, msg) ==
  [c \in Clients |-> IF connected[c] THEN Append(ib[c], msg) ELSE ib[c]]

\* variant: the message overtakes what is already queued for the socket
roomEmitFront(ib, rm, id, msg) ==
  [c \in Clients |-> IF id \in rm[c] THEN <<msg>> \o ib[c] ELSE ib[c]]

\* io.to(`session:${id}`).emit(...)
roomEmit(ib, rm, id, msg) ==
  [c \in Clients |-> IF id \in rm[c] THEN Append(ib[c], msg) ELSE ib[c]]

\* variant: a global message reaches only the sockets that joined a room
ioEmitJoined(ib, msg) ==
  [c \in Clients |-> IF rooms[c] # {} THEN Append(ib[c], msg) ELSE ib[c]]

\* io.emit(...)
ioEmit(ib, msg) ==
  [c \in Clients |-> IF connected[c] THEN Append(ib[c], msg) ELSE ib[c]]

\* socket.emit(...)
socketEmit(ib, c, msg) == [ib EXCEPT ![c] = Append(@, msg)]

\* the two emits that follow every addEvent (routes.ts 71-72, manager.ts 196-197)
broadcastEvent(ib, sess, evs, event) ==
  ioEmit(roomEmit(ib, rooms, event.sessionId, Msg("event", event)),
         Msg("session:update", getSessionOf(sess, evs, event.sessionId, clock)))

publishEvent(log, sess, evs, event) ==
  log \o <<Pub(event.sessionId, "event", event),
           Pub(GlobalRoom, "session:update", getSessionOf(sess, evs, event.sessionId, clock))>>

RECURSIVE countName(_, _)
countName(seq, name) ==
  IF seq = <<>> THEN 0
  ELSE (IF Head(seq).name = name THEN 1 ELSE 0) + countName(Tail(seq), name)

RECURSIVE countDeletes(_)
\* DELETE requests served so far (each publishes one message)
countDeletes(log) ==
  IF log = <<>> THEN 0
  ELSE (IF Head(log).name \in {"session:deleted", "sessions:cleared"} THEN 1 ELSE 0)
       + countDeletes(Tail(log))

bump(f, k) == IF k \in DOMAIN f THEN [f EXCEPT ![k] = @ + 1] ELSE f @@ (k :> 1)
without(f, k) == [x \in DOMAIN f \ {k} |-> f[x]]

\* ---------------------------------------------------- routes.ts handlers
NoSessionId == <<"", 0>>
NoEvent == [absent |-> TRUE]
\* the event of a payload with the four fields given and every other field
\* absent; item.* are the fields of event.item
RawEvent(hook, type, itemType, ts) ==
  [hook_event_name |-> hook, event |-> NULL, type |-> type, timestamp |-> ts,
   result |-> NULL, response |-> NULL, stop_reason |-> NULL, transcript_path |-> NULL,
   user_message |-> NULL, message |-> NULL, text |-> NULL, prompt |-> NULL,
   tool_name |-> NULL, toolName |-> NULL, tool_input |-> NULL, toolInput |-> NULL,
   tool_response |-> NoValue, tool_output |-> NoValue, toolOutput |-> NoValue,
   error |-> NULL,
   itemType |-> itemType, itemCommand |-> NULL, itemFile |-> NULL, itemPatch |-> NoValue,
   itemContent |-> NULL, itemOutput |-> NoValue]

\* variant: only sessionId and event are required
missingFieldsButSource(payload) ==
  payload.sessionId = NoSessionId \/ payload.event = NoEvent

\* !payload.source || !payload.sessionId || !payload.event
missingFields(payload) ==
  payload.source = NULL \/ payload.sessionId = NoSessionId \/ payload.event = NoEvent

\* the files transcript_path can name: whether existsSync finds the file,
\* whether readFileSync returns, and its lines; a line is one that JSON.parse
\* rejects, or an entry with its type and the text blocks of
\* entry.message.content (at most one in these files, so texts.join is it)
Transcripts ==
  LET NotJson == [json |-> FALSE, type |-> NULL, texts |-> <<>>]
      Entry(type, texts) == [json |-> TRUE, type |-> type, texts |-> texts]
  IN
  [ missing    |-> [exists |-> FALSE, readable |-> FALSE, lines |-> <<>>],
    unreadable |-> [exists |-> TRUE, readable |-> FALSE, lines |-> <<>>],
    garbage    |-> [exists |-> TRUE, readable |-> TRUE, lines |-> <<NotJson, NotJson>>],
    silent     |-> [exists |-> TRUE, readable |-> TRUE,
                    lines |-> <<Entry("user", <<"hello">>), Entry("assistant", <<>>)>>],
    empty      |-> [exists |-> TRUE, readable |-> TRUE,
                    lines |-> <<Entry("assistant", <<"">>)>>],
    good       |-> [exists |-> TRUE, readable |-> TRUE,
                    lines |-> <<Entry("assistant", <<"first answer">>), NotJson,
                                Entry("assistant", <<"last answer">>),
                                Entry("user", <<"thanks">>)>>] ]

RECURSIVE lastAssistantText(_, _)
\* the loop of extractLastAssistantMessage from line i down to the first
lastAssistantText(lines, i) ==
  IF i = 0 THEN NULL
  ELSE IF lines[i].json /\ lines[i].type = "assistant" /\ Len(lines[i].texts) > 0
  THEN lines[i].texts[1]
  ELSE lastAssistantText(lines, i - 1)

\* extractLastAssistantMessage(transcriptPath): the text, or null; whatever
\* throws inside is caught
extractLastAssistantMessage(transcriptPath) ==
  LET file == Transcripts[transcriptPath]
  IN IF ~file.exists THEN NULL
     ELSE IF ~file.readable THEN NULL
     ELSE lastAssistantText(file.lines, Len(file.lines))

\* "Server-side transcript parsing for Stop events": the payload as normalize
\* gets it
splice(payload) ==
  IF /\ payload.event.hook_event_name = "Stop"
     /\ payload.event.result \in {NULL, ""}
     /\ payload.event.transcript_path \notin {NULL, ""}
  THEN LET text == extractLastAssistantMessage(payload.event.transcript_path)
       IN IF text \notin {NULL, ""} THEN [payload EXCEPT !.event.result = text] ELSE payload
  ELSE payload

\* an object without keys
EmptyObject == "{}"
InternalError == [status |-> 500, body |-> "Failed to process event", data |-> <<>>]

\* POST /api/ingest
PostIngest(payload, cred) ==
  IF ~Admitted(cred)
  THEN /\ resp' = Unauthorized
       /\ UNCHANGED <<clock, storeVars, rtVars, authEnabled, sourceMgr, insightVars, cronVars>>
  ELSE IF missingFields(payload)
  THEN /\ resp' = [status |-> 400, body |-> "Missing required fields: source, sessionId, event", data |-> <<>>]
       /\ UNCHANGED <<clock, storeVars, rtVars, authEnabled, sourceMgr, insightVars, cronVars>>
  ELSE /\ nextId <= MaxIds
       /\ LET event == normalize(splice(payload), clock)
              st == addEvent(sessions, events, event)
              sess2 == IF payload.user \notin {NULL, EmptyObject}
                       THEN updateSessionMeta(st.sessions, event.sessionId, [user |-> payload.user])
                       ELSE st.sessions
          IN IF st.threw
             THEN /\ sessions' = st.sessions
                  /\ events' = st.events
                  /\ nextId' = nextId + 1
                  /\ resp' = InternalError
                  /\ UNCHANGED <<appendLog, accepted, inbox, published>>
             ELSE /\ sessions' = sess2
                  /\ events' = st.events
                  /\ nextId' = nextId + 1
                  /\ appendLog' = Append(appendLog, event.id)
                  /\ accepted' = bump(accepted, event.sessionId)
                  /\ inbox' = broadcastEvent(inbox, sess2, st.events, event)
                  /\ published' = publishEvent(published, sess2, st.events, event)
                  /\ resp' = Ok
       /\ UNCHANGED <<clock, connected, rooms, authEnabled, sourceMgr, insightVars, cronVars>>

\* GET /api/sessions
GetSessions(cred) ==
  /\ resp' = IF Admitted(cred) THEN [status |-> 200, body |-> "sessions", data |-> listSessions]
             ELSE Unauthorized
  /\ UNCHANGED <<clock, storeVars, rtVars, authEnabled, sourceMgr, insightVars, cronVars>>

\* GET /api/sessions/:id
GetSessionById(id, cred) ==
  /\ resp' = IF ~Admitted(cred) THEN Unauthorized
             ELSE IF getSession(id) = NoRow
             THEN [status |-> 404, body |-> "Session not found", data |-> <<>>]
             ELSE [status |-> 200, body |-> "session", data |-> <<getSession(id)>>]
  /\ UNCHANGED <<clock, storeVars, rtVars, authEnabled, sourceMgr, insightVars, cronVars>>

\* DELETE /api/sessions/:id
DeleteSessionById(id, cred) ==
  IF ~Admitted(cred)
  THEN /\ resp' = Unauthorized
       /\ UNCHANGED <<clock, storeVars, rtVars, authEnabled, sourceMgr, insightVars, cronVars>>
  ELSE /\ countDeletes(published) < MaxDeletes
       /\ LET st == deleteSession(sessions, events, id)
          IN /\ sessions' = st.sessions
             /\ events' = st.events
       /\ accepted' = without(accepted, id)
       /\ inbox' = ioEmit(inbox, Msg("session:deleted", id))
       /\ published' = Append(published, Pub(GlobalRoom, "session:deleted", id))
       /\ resp' = Ok
       /\ UNCHANGED <<clock, nextId, appendLog, connected, rooms, authEnabled, sourceMgr, insightVars, cronVars>>

\* DELETE /api/sessions
DeleteAllSessions(cred) ==
  IF ~Admitted(cred)
  THEN /\ resp' = Unauthorized
       /\ UNCHANGED <<clock, storeVars, rtVars, authEnabled, sourceMgr, insightVars, cronVars>>
  ELSE /\ countDeletes(published) < MaxDeletes
       /\ sessions' = clearAll.sessions
       /\ events' = clearAll.events
       /\ accepted' = <<>>
       /\ inbox' = ioEmit(inbox, Msg("sessions:cleared", NULL))
       /\ published' = Append(published, Pub(GlobalRoom, "sessions:cleared", NULL))
       /\ resp' = Ok
       /\ UNCHANGED <<clock, nextId, appendLog, connected, rooms, authEnabled, sourceMgr, insightVars, cronVars>>

\* --------------------------------- realtime gateway (src/unnamed/part_020)
\* handshake, then io.on('connection'): socket.emit('sessions:list', ...).
\* Every connection is a new socket: c connects once.
Connect(c, cred) ==
  /\ ~connected[c]
  /\ inbox[c] = <<>>
  /\ IF Admitted(cred)
     THEN /\ connected' = [connected EXCEPT ![c] = TRUE]
          /\ inbox' = [inbox EXCEPT ![c] = <<Msg("sessions:list", listSessions)>>]
     ELSE /\ connected' = connected
          /\ inbox' = [inbox EXCEPT ![c] = <<Msg("connect_error", "Authentication required")>>]
  /\ UNCHANGED <<clock, storeVars, rooms, published, resp, authEnabled, sourceMgr, insightVars, cronVars>>

\* variant: joining a room the socket is in takes it out
joinToggle(rs, room) == IF room \in rs THEN rs \ {room} ELSE rs \cup {room}
\* socket.join(room): the rooms of a socket are a Set
join(rs, room) == rs \cup {room}
\* socket.leave(room)
leave(rs, room) == rs \ {room}

\* socket.on('subscribe')
Subscribe(c, sessionId) ==
  /\ connected[c]
  /\ countName(inbox[c], "session:events") < MaxResubs
  /\ rooms' = [rooms EXCEPT ![c] = join(@, sessionId)]
  /\ inbox' = socketEmit(inbox, c,
                 Msg("session:events", [sessionId |-> sessionId, events |-> getSessionEvents(sessionId)]))
  /\ UNCHANGED <<clock, storeVars, connected, published, resp, authEnabled, sourceMgr, insightVars, cronVars>>

\* socket.on('unsubscribe')
Unsubscribe(c, sessionId) ==
  /\ connected[c]
  /\ rooms' = [rooms EXCEPT ![c] = leave(@, sessionId)]
  /\ UNCHANGED <<clock, storeVars, connected, inbox, published, resp, authEnabled, sourceMgr, insightVars, cronVars>>

\* the socket closes: socket.io leaves all its rooms
Disconnect(c) ==
  /\ connected[c]
  /\ connected' = [connected EXCEPT ![c] = FALSE]
  /\ rooms' = [rooms EXCEPT ![c] = {}]
  /\ UNCHANGED <<clock, storeVars, inbox, published, resp, authEnabled, sourceMgr, insightVars, cronVars>>

\* ------------------------------------------- cron/manager.ts, executeCronJob
\* no executeCronJob call in progress for the job
NoRun == [pc |-> "idle", caller |-> NULL, sessionId |-> NoSessionId, i |-> 0, pending |-> 0,
          skips |-> 0, refusals |-> 0, calls |-> 0, dropped |-> 0]
\* a row of cron_jobs as addCronJob leaves it
NewJob == [exists |-> TRUE, enabled |-> TRUE, lastRunStatus |-> NULL,
           lastRunSessionId |-> NoSessionId, totalRuns |-> 0]
\* getCronJob(id) finds no row
NoJob == [exists |-> FALSE, enabled |-> FALSE, lastRunStatus |-> NULL,
          lastRunSessionId |-> NoSessionId, totalRuns |-> 0]

\* updateCronJobRun(job.id, { lastRunAt, lastRunSessionId, lastRunStatus: 'running' });
\* the update changes no row when the job has been deleted
markRunning(jobs, j, sessionId) ==
  IF ~jobs[j].exists THEN jobs
  ELSE [jobs EXCEPT ![j].lastRunSessionId = sessionId, ![j].lastRunStatus = "running"]

\* variant: totalRuns is not written
recordRunUncounted(jobs, j, status) ==
  IF ~jobs[j].exists THEN jobs
  ELSE [jobs EXCEPT ![j].lastRunStatus = status]

\* currentJob = getCronJob(job.id);
\* updateCronJobRun(job.id, { lastRunStatus, totalRuns: (currentJob?.totalRuns ?? 0) + 1 })
recordRun(jobs, j, status) ==
  IF ~jobs[j].exists THEN jobs
  ELSE [jobs EXCEPT ![j].lastRunStatus = status, ![j].totalRuns = jobs[j].totalRuns + 1]

makeEvent(sessionId, category, type) ==
  [id |-> nextId, sessionId |-> sessionId, timestamp |-> clock, source |-> "cron",
   category |-> category, type |-> type,
   role |-> NULL, text |-> NULL, toolName |-> NULL, toolInput |-> NULL,
   toolOutput |-> NoValue, error |-> NULL, meta |-> <<>>]

\* variant: the event is emitted but not written to the Store
injectEventUnstored(st, sessionId, category, type) ==
  LET event == [makeEvent(sessionId, category, type) EXCEPT !.id = nextId + Len(st.appendLog) - Len(appendLog)]
  IN [sessions |-> st.sessions,
      events |-> st.events,
      inbox |-> ioEmit(roomEmit(st.inbox, rooms, sessionId, Msg("event", event)),
                       Msg("session:update", getSessionOf(st.sessions, st.events, sessionId, clock))),
      published |-> publishEvent(st.published, st.sessions, st.events, event),
      appendLog |-> Append(st.appendLog, event.id)]

\* injectEvent(event, io) applied to the state st = [sessions, events, inbox,
\* published, appendLog], the event made with the toolOutput given; the event
\* gets the next id
injectEventWith(st, sessionId, category, type, toolOutput) ==
  LET event == [makeEvent(sessionId, category, type) EXCEPT
                  !.id = nextId + Len(st.appendLog) - Len(appendLog),
                  !.toolOutput = toolOutput]
      db == addEvent(st.sessions, st.events, event)
  IN [sessions |-> db.sessions,
      events |-> db.events,
      inbox |-> ioEmit(roomEmit(st.inbox, rooms, sessionId, Msg("event", event)),
                       Msg("session:update", getSessionOf(db.sessions, db.events, sessionId, clock))),
      published |-> publishEvent(st.published, db.sessions, db.events, event),
      appendLog |-> Append(st.appendLog, event.id)]

\* injectEvent of an event without toolOutput
injectEvent(st, sessionId, category, type) ==
  injectEventWith(st, sessionId, category, type, NoValue)

here == [sessions |-> sessions, events |-> events, inbox |-> inbox,
         published |-> published, appendLog |-> appendLog]

\* the state st becomes the next state
commit(st) ==
  /\ sessions' = st.sessions
  /\ events' = st.events
  /\ inbox' = st.inbox
  /\ published' = st.published
  /\ appendLog' = st.appendLog
  /\ nextId' = nextId + Len(st.appendLog) - Len(appendLog)

\* executeCronJob from its first line to the first await of the chat loop;
\* caller is the function that awaits it (the croner callback or triggerJob)
startRun(j, caller) ==
  LET sessionId == CronSessionId(j, clock)
      s1 == injectEvent(here, sessionId, "session", "session.start")
      s2 == [s1 EXCEPT !.sessions =
               updateSessionMeta(s1.sessions, sessionId, [title |-> j, cronJob |-> j])]
      s3 == injectEvent(s2, sessionId, "message", "message.user")
  IN /\ nextId + 1 <= MaxIds
     /\ commit(s3)
     /\ cronJobs' = markRunning(cronJobs, j, sessionId)
     /\ cronRun' = [cronRun EXCEPT ![j].pc = "chat", ![j].caller = caller,
                                   ![j].sessionId = sessionId, ![j].i = 0, ![j].pending = 0,
                                   ![j].calls = 1]
     /\ running' = running \cup {j}
     /\ UNCHANGED <<clock, accepted, connected, rooms, resp, authEnabled, sourceMgr, insightVars>>

\* variant: the overlap guard never finds a job running
hasNever(set, j) == FALSE

\* running.has(id)
has(set, j) == j \in set

\* variant: the callback runs the job without reading its row again
ScheduledFireUnchecked(j) ==
  /\ ~has(running, j)
  /\ startRun(j, "schedule")

\* the croner callback registered by scheduleJob, the job not running
ScheduledFire(j) ==
  /\ ~has(running, j)
  /\ cronJobs[j].exists /\ cronJobs[j].enabled
  /\ startRun(j, "schedule")

\* the croner callback of a timer still registered, the job not running and
\* deleted or disabled in the table: running.add(id), currentJob is missing or
\* not enabled, return, and the finally block deletes id from running
ScheduledDropped(j) ==
  /\ ~has(running, j)
  /\ ~(cronJobs[j].exists /\ cronJobs[j].enabled)
  /\ cronRun[j].dropped < MaxSkips
  /\ cronRun' = [cronRun EXCEPT ![j].dropped = @ + 1]
  /\ running' = (running \cup {j}) \ {j}
  /\ UNCHANGED <<clock, storeVars, rtVars, resp, authEnabled, sourceMgr, insightVars, cronJobs>>

\* updateCronJob(id, { enabled }) on the table; the timer stays registered
UpdateCronJob(j, enabled) ==
  /\ cronJobs[j].exists
  /\ cronJobs[j].enabled # enabled
  /\ cronJobs' = [cronJobs EXCEPT ![j].enabled = enabled]
  /\ UNCHANGED <<clock, storeVars, rtVars, resp, authEnabled, sourceMgr, insightVars, running, cronRun>>

\* deleteCronJob(id) on the table; the timer stays registered
DeleteCronJob(j) ==
  /\ cronJobs[j].exists
  /\ cronJobs' = [cronJobs EXCEPT ![j] = NoJob]
  /\ UNCHANGED <<clock, storeVars, rtVars, resp, authEnabled, sourceMgr, insightVars, running, cronRun>>

\* the croner callback, the job running: "already running, skipping"
ScheduledSkip(j) ==
  /\ has(running, j)
  /\ cronRun[j].skips < MaxSkips
  /\ cronRun' = [cronRun EXCEPT ![j].skips = @ + 1]
  /\ UNCHANGED <<clock, storeVars, rtVars, resp, authEnabled, sourceMgr, insightVars, running, cronJobs>>

\* triggerJob(id), the job not running
TriggerJob(j) ==
  /\ cronJobs[j].exists
  /\ ~has(running, j)
  /\ startRun(j, "trigger")

\* triggerJob(id), the job running: { success: false, error: 'Job is already running' }
TriggerRefused(j) ==
  /\ has(running, j)
  /\ cronRun[j].refusals < MaxSkips
  /\ cronRun' = [cronRun EXCEPT ![j].refusals = @ + 1]
  /\ UNCHANGED <<clock, storeVars, rtVars, resp, authEnabled, sourceMgr, insightVars, running, cronJobs>>

\* variant: the run ends without a session.end event
finishRunNoEnd(j, st, success) ==
  LET s2 == [st EXCEPT !.inbox = ioEmit(st.inbox, Msg("cron:run", j)),
                       !.published = Append(st.published, Pub(GlobalRoom, "cron:run", j))]
  IN /\ commit(s2)
     /\ cronJobs' = recordRun(cronJobs, j, IF success THEN "success" ELSE "error")
     /\ cronRun' = [cronRun EXCEPT ![j].pc = "idle", ![j].caller = NULL,
                                   ![j].sessionId = NoSessionId, ![j].i = 0, ![j].pending = 0,
                                   ![j].calls = 0]
     /\ running' = running \ {j}

\* variant: the job record always says success
finishRunSuccess(j, st, success) ==
  LET s1 == injectEvent(st, cronRun[j].sessionId, "session", "session.end")
      s2 == [s1 EXCEPT !.inbox = ioEmit(s1.inbox, Msg("cron:run", j)),
                       !.published = Append(s1.published, Pub(GlobalRoom, "cron:run", j))]
  IN /\ commit(s2)
     /\ cronJobs' = recordRun(cronJobs, j, "success")
     /\ cronRun' = [cronRun EXCEPT ![j].pc = "idle", ![j].caller = NULL,
                                   ![j].sessionId = NoSessionId, ![j].i = 0, ![j].pending = 0,
                                   ![j].calls = 0]
     /\ running' = running \ {j}

\* executeCronJob after the loop: session.end, the job record, cron:run; then
\* the caller's finally { running.delete(id) }
finishRun(j, st, success) ==
  LET s1 == injectEvent(st, cronRun[j].sessionId, "session", "session.end")
      s2 == [s1 EXCEPT !.inbox = ioEmit(s1.inbox, Msg("cron:run", j)),
                       !.published = Append(s1.published, Pub(GlobalRoom, "cron:run", j))]
  IN /\ commit(s2)
     /\ cronJobs' = recordRun(cronJobs, j, IF success THEN "success" ELSE "error")
     /\ cronRun' = [cronRun EXCEPT ![j].pc = "idle", ![j].caller = NULL,
                                   ![j].sessionId = NoSessionId, ![j].i = 0, ![j].pending = 0,
                                   ![j].calls = 0]
     /\ running' = running \ {j}

\* client.messages.create(...) returns or throws
ChatReply(j, reply) ==
  /\ cronRun[j].pc = "chat"
  /\ CASE reply = "end_turn" ->
            /\ nextId + 1 <= MaxIds
            /\ finishRun(j, injectEvent(here, cronRun[j].sessionId, "message", "message.assistant"), TRUE)
       [] reply = "throw" ->
            /\ nextId + 1 <= MaxIds
            /\ finishRun(j, injectEvent(here, cronRun[j].sessionId, "error", "error"), FALSE)
       [] reply = "tool_use" ->
            \E n \in 1..MaxTools :
              /\ nextId + n - 1 <= MaxIds
              /\ LET RECURSIVE starts(_, _)
                     starts(st, k) == IF k = 0 THEN st
                                      ELSE starts(injectEvent(st, cronRun[j].sessionId, "tool", "tool.start"), k - 1)
                 IN commit(starts(here, n))
              /\ cronRun' = [cronRun EXCEPT ![j].pc = "tools", ![j].pending = n]
              /\ UNCHANGED <<cronJobs, running>>
       [] OTHER ->
            IF cronRun[j].i + 1 < MAX_ITERATIONS
            THEN /\ cronRun' = [cronRun EXCEPT ![j].i = @ + 1, ![j].calls = @ + 1]
                 /\ UNCHANGED <<sessions, events, inbox, published, appendLog, nextId, cronJobs, running>>
            ELSE /\ nextId <= MaxIds
                 /\ finishRun(j, here, TRUE)
  /\ UNCHANGED <<clock, accepted, connected, rooms, resp, authEnabled, sourceMgr, insightVars>>

\* the limit of a tool result in the chat loop
MAX_TOOL_RESULT == 10000

\* result after the try / catch around the tool call; outcome says what the
\* call came to: it returned a string of chars characters, or it threw an
\* error whose message has chars characters
toolResult(outcome) ==
  IF outcome.threw THEN Value(7 + outcome.chars)
  ELSE IF outcome.chars > MAX_TOOL_RESULT
  THEN [chars |-> outcome.chars, kept |-> MAX_TOOL_RESULT, marker |-> "\n... (truncated)"]
  ELSE Value(outcome.chars)

\* one tool call of the current response returns (or throws, which is caught)
ToolDoneWith(j, outcome) ==
  /\ cronRun[j].pc = "tools"
  /\ LET s1 == injectEventWith(here, cronRun[j].sessionId, "tool", "tool.end", toolResult(outcome))
     IN IF cronRun[j].pending > 1
        THEN /\ nextId <= MaxIds
             /\ commit(s1)
             /\ cronRun' = [cronRun EXCEPT ![j].pending = @ - 1]
             /\ UNCHANGED <<cronJobs, running>>
        ELSE IF cronRun[j].i + 1 < MAX_ITERATIONS
        THEN /\ nextId <= MaxIds
             /\ commit(s1)
             /\ cronRun' = [cronRun EXCEPT ![j].pending = 0, ![j].pc = "chat", ![j].i = @ + 1,
                                           ![j].calls = @ + 1]
             /\ UNCHANGED <<cronJobs, running>>
        ELSE /\ nextId + 1 <= MaxIds
             /\ finishRun(j, s1, TRUE)
  /\ UNCHANGED <<clock, accepted, connected, rooms, resp, authEnabled, sourceMgr, insightVars>>

\* a tool call that returns a short result
ToolDone(j) == ToolDoneWith(j, [threw |-> FALSE, chars |-> 2])

\* ------------------------------------------------------------------ clock
TickMs ==
  /\ clock % STALE_TIMEOUT < MaxMs
  /\ clock' = clock + 1
  /\ UNCHANGED <<storeVars, rtVars, resp, authEnabled, sourceMgr, insightVars, cronVars>>

TickLong ==
  /\ clock \div STALE_TIMEOUT < MaxLong
  /\ clock' = clock + STALE_TIMEOUT
  /\ UNCHANGED <<storeVars, rtVars, resp, authEnabled, sourceMgr, insightVars, cronVars>>

\* ------------------------------------------------------ the insight scheduler
Users == {"u1", "u2"}
\* meta.phase undefined
NoPhase == "none"
\* state: lastEventTimestamp of the analysis state of each user (NoTimestamp:
\* no row); invoked: the users runAnalysis was called for in the current run
NoAnalysis == [pc |-> "idle", caller |-> NULL, todo |-> <<>>, insight |-> 0,
               toPost |-> 0, runs |-> 0, skips |-> 0,
               state |-> [u \in Users |-> NoTimestamp], invoked |-> <<>>]

\* createInsightScheduler: let isAnalyzing = false, empty tables
InitInsightScheduler ==
  /\ isAnalyzing = FALSE
  /\ analysis = NoAnalysis
  /\ insights = <<>>
  /\ questions = <<>>
  /\ refining = {}

\* what the insight handlers leave alone
besideInsights == <<clock, storeVars, connected, rooms, resp, authEnabled, sourceMgr, cronVars>>

\* io.emit(name, data) of the scheduler
insightEmit(name, data) ==
  /\ inbox' = ioEmit(inbox, Msg(name, data))
  /\ published' = Append(published, Pub(GlobalRoom, name, data))

\* the row of an insight as emitted
insightView(id, row) == <<id, row.phase, row.answersReceived>>

\* variant: the flag is cleared only when nothing was thrown
leaveRunUnlessThrown(threw) == threw
\* runAnalysisJob: finally { isAnalyzing = false }
leaveRun(threw) == FALSE

\* addQuestion({ insightId, ... })
addQuestion(qs, insightId) == Append(qs, [insightId |-> insightId, status |-> "pending"])

\* getQuestionsByInsightId(id).filter(q => q.status === 'answered').length
answeredCount(qs, insightId) ==
  Cardinality({q \in DOMAIN qs : qs[q].insightId = insightId /\ qs[q].status = "answered"})

\* runAnalysisJob up to the first await: the flag test, the flag, the users
RunAnalysisJob(caller, users, dbThrows) ==
  /\ ~isAnalyzing
  /\ analysis.runs < MaxRuns
  /\ caller = "runOnStart" => analysis.runs = 0 /\ analysis.skips = 0
  /\ IF dbThrows \/ users = <<>>
       THEN /\ isAnalyzing' = leaveRun(dbThrows)
            /\ analysis' = [analysis EXCEPT !.runs = @ + 1]
       ELSE /\ isAnalyzing' = TRUE
            /\ analysis' = [analysis EXCEPT !.pc = "analyzing", !.caller = caller,
                                            !.todo = users, !.runs = @ + 1,
                                            !.invoked = <<>>]
  /\ UNCHANGED <<besideInsights, inbox, published, insights, questions, refining>>

\* runAnalysisJob: 'Analysis already in progress, skipping'
RunSkipped(caller) ==
  /\ isAnalyzing
  /\ analysis.skips < MaxSkips
  /\ analysis' = [analysis EXCEPT !.skips = @ + 1]
  /\ UNCHANGED <<besideInsights, inbox, published, isAnalyzing, insights, questions, refining>>

\* variant: the run ends with the user whose analysis has returned
nextUserNone(a) ==
  /\ analysis' = [a EXCEPT !.pc = "idle", !.caller = NULL, !.todo = <<>>,
                           !.insight = 0, !.toPost = 0]
  /\ isAnalyzing' = leaveRun(FALSE)

\* analyzeUser has returned or thrown, the scheduler's record being a: the
\* next user, or the end of the run
nextUserFrom(a) ==
  IF Len(a.todo) > 1
    THEN /\ analysis' = [a EXCEPT !.pc = "analyzing", !.todo = Tail(@),
                                  !.insight = 0, !.toPost = 0]
         /\ UNCHANGED isAnalyzing
    ELSE /\ analysis' = [a EXCEPT !.pc = "idle", !.caller = NULL, !.todo = <<>>,
                                  !.insight = 0, !.toPost = 0]
         /\ isAnalyzing' = leaveRun(FALSE)

nextUser == nextUserFrom(analysis)

\* runAnalysis(userId, ...) was called for the first user left
analyzed == [analysis EXCEPT !.invoked = Append(@, Head(analysis.todo))]

\* updateAnalysisState(userId, null, analysisWindowEnd) after a successful analysis
updateAnalysisState(a) == [a EXCEPT !.state[Head(a.todo)] = clock]

\* analyzeUser for the first user left: too few events, a query made before
\* the analysis throws, runAnalysis fails (it returns success: false, also for
\* what is thrown inside it), or succeeds with n questions while Slack is
\* connected or not
AnalysisReply(outcome, n, slack) ==
  /\ analysis.pc = "analyzing"
  /\ CASE outcome \in {"few", "throw"} ->
            /\ nextUser
            /\ UNCHANGED <<inbox, published, insights, questions>>
       [] outcome = "failed" ->
            /\ insightEmit("insight:error", <<Head(analysis.todo)>>)
            /\ nextUserFrom(analyzed)
            /\ UNCHANGED <<insights, questions>>
       [] outcome = "ok" ->
            LET canAskQuestions == n > 0 /\ slack
                id == Len(insights) + 1
                row == [userId |-> Head(analysis.todo),
                        phase |-> IF canAskQuestions THEN "preliminary"
                                  ELSE IF n > 0 THEN "final-no-answers" ELSE NoPhase,
                        questionCount |-> n,
                        answersReceived |-> 0]
            IN /\ Len(insights) < MaxInsights
               /\ insights' = Append(insights, row)
               /\ insightEmit("insight:new", insightView(id, row))
               /\ IF canAskQuestions
                    THEN /\ questions' = addQuestion(questions, id)
                         /\ analysis' = [updateAnalysisState(analyzed) EXCEPT
                                            !.pc = "posting", !.insight = id, !.toPost = n - 1]
                         /\ UNCHANGED isAnalyzing
                    ELSE /\ nextUserFrom(updateAnalysisState(analyzed))
                         /\ UNCHANGED questions
  /\ UNCHANGED <<besideInsights, refining>>

\* analyzeUser: postQuestion has returned or thrown
PostQuestionDone(threw) ==
  /\ analysis.pc = "posting"
  /\ IF ~threw /\ analysis.toPost > 0
       THEN /\ questions' = addQuestion(questions, analysis.insight)
            /\ analysis' = [analysis EXCEPT !.toPost = @ - 1]
            /\ UNCHANGED isAnalyzing
       ELSE /\ nextUser
            /\ UNCHANGED questions
  /\ UNCHANGED <<besideInsights, inbox, published, insights, refining>>

\* thread:ready for question q, up to the await of runRefinement
ThreadReady(q) ==
  /\ q \in DOMAIN questions
  /\ questions[q].status = "pending"
  /\ LET qs == [questions EXCEPT ![q].status = "answered"]
         id == questions[q].insightId
     IN /\ questions' = qs
        /\ refining' = refining \cup
             {[questionId |-> q, insight |-> id,
               answers |-> answeredCount(qs, id),
               currentRound |-> insights[id].answersReceived]}
  /\ UNCHANGED <<besideInsights, inbox, published, isAnalyzing, analysis, insights>>

\* the phase chosen after a refinement
refinedPhase(hasFollowUps, currentRound) ==
  IF hasFollowUps /\ currentRound + 1 < DEFAULT_MAX_QUESTION_ROUNDS
    THEN "preliminary" ELSE "refined"

\* thread:ready after runRefinement: failure, a throw, or updateInsight
RefineDone(r, outcome) ==
  /\ r \in refining
  /\ refining' = refining \ {r}
  /\ CASE outcome = "throw" ->
            UNCHANGED <<inbox, published, insights>>
       [] outcome = "failed" ->
            /\ insightEmit("insight:error", <<insights[r.insight].userId>>)
            /\ UNCHANGED insights
       [] outcome \in {"followups", "none"} ->
            LET row == [insights[r.insight] EXCEPT
                          !.phase = refinedPhase(outcome = "followups", r.currentRound),
                          !.answersReceived = r.answers]
            IN /\ insights' = [insights EXCEPT ![r.insight] = row]
               /\ insightEmit("insight:updated", insightView(r.insight, row))
  /\ UNCHANGED <<besideInsights, isAnalyzing, analysis, questions>>

\* ------------------------------- source manager (src/unnamed/part_022)
\* One data source.  row: "none" before addSource, "present", "deleted";
\* enabled: the row's flag; map: the listener under the source's id in
\* listeners (0: none); live: the listeners started and not stopped; made: the
\* listeners created so far; calls: the API calls in flight, each at its await
NoCall == [pc |-> "idle", listener |-> 0, then |-> NULL]
NoSourceManager ==
  [row |-> "none", enabled |-> FALSE, map |-> 0, live |-> {}, made |-> 0, ops |-> 0,
   calls |-> [c \in 1..MaxCalls |-> NoCall]]

\* a call begins with the manager as it is and nothing emitted yet
begin(c) == [mgr |-> [sourceMgr EXCEPT !.ops = @ + 1], out |-> <<>>]

\* io.emit(name, data) within st
sourceEmit(st, name, data) == [st EXCEPT !.out = Append(@, Msg(name, data))]

\* the call c returns
done(st, c) == [st EXCEPT !.mgr.calls[c] = NoCall]

RECURSIVE emitAll(_, _)
emitAll(ib, out) == IF out = <<>> THEN ib ELSE emitAll(ioEmit(ib, Head(out)), Tail(out))

\* st becomes the next state of the source manager, its messages emitted
commitSources(st) ==
  /\ sourceMgr' = st.mgr
  /\ inbox' = emitAll(inbox, st.out)
  /\ published' = published \o [i \in 1..Len(st.out) |-> Pub(GlobalRoom, st.out[i].name, st.out[i].data)]
  /\ UNCHANGED <<clock, storeVars, connected, rooms, resp, authEnabled, insightVars, cronVars>>

\* startListener after the old listener was stopped, or without one:
\* createListener(source), then await listener.start()
startNew(st, c) ==
  [st EXCEPT !.mgr.made = @ + 1,
             !.mgr.calls[c] = [pc |-> "starting", listener |-> st.mgr.made + 1, then |-> NULL]]

\* startListener(source) up to its first await
startListener(st, c) ==
  IF st.mgr.map # 0
  THEN [st EXCEPT !.mgr.calls[c] = [pc |-> "stopOld", listener |-> st.mgr.map, then |-> NULL]]
  ELSE startNew(st, c)

\* what the caller of stopListener does when it has returned: removeSource
\* deletes the row, updateSource starts the listener again, the others return
afterStop(st, c, then) ==
  CASE then = "delete" ->
         done(sourceEmit([st EXCEPT !.mgr.row = "deleted"], "source:deleted", NULL), c)
    [] then = "start" -> startListener(st, c)
    [] OTHER -> done(st, c)

\* stopListener(id) up to its await, or to its end when the map has no listener
stopListener(st, c, then) ==
  IF st.mgr.map # 0
  THEN [st EXCEPT !.mgr.calls[c] = [pc |-> "stopping", listener |-> st.mgr.map, then |-> then]]
  ELSE afterStop(st, c, then)

\* a call may begin: a free slot, and calls left in the model
free(c) == sourceMgr.calls[c].pc = "idle" /\ sourceMgr.ops < MaxSourceOps

\* addSource(input)
AddSource(c, enabled) ==
  /\ free(c)
  /\ sourceMgr.row = "none"
  /\ LET s1 == sourceEmit([begin(c) EXCEPT !.mgr.row = "present", !.mgr.enabled = enabled],
                          "source:new", enabled)
     IN commitSources(IF enabled THEN startListener(s1, c) ELSE done(s1, c))

\* toggleSource(id, enabled)
ToggleSource(c, enabled) ==
  /\ free(c)
  /\ IF sourceMgr.row # "present"
     THEN commitSources(done(begin(c), c))
     ELSE LET s1 == sourceEmit([begin(c) EXCEPT !.mgr.enabled = enabled], "source:updated", enabled)
          IN commitSources(IF enabled THEN startListener(s1, c) ELSE stopListener(s1, c, NULL))

\* updateSource(id, input)
UpdateSource(c) ==
  /\ free(c)
  /\ IF sourceMgr.row # "present"
     THEN commitSources(done(begin(c), c))
     ELSE LET s1 == sourceEmit(begin(c), "source:updated", sourceMgr.enabled)
          IN commitSources(IF sourceMgr.enabled /\ sourceMgr.map # 0
                           THEN stopListener(s1, c, "start") ELSE done(s1, c))

\* removeSource(id)
RemoveSource(c) ==
  /\ free(c)
  /\ commitSources(stopListener(begin(c), c, "delete"))

\* start(): startListener for the enabled source
StartManager(c) ==
  /\ free(c)
  /\ commitSources(IF sourceMgr.row = "present" /\ sourceMgr.enabled
                   THEN startListener(begin(c), c) ELSE done(begin(c), c))

\* stop(): stopListener for every id of the map
StopManager(c) ==
  /\ free(c)
  /\ commitSources(stopListener(begin(c), c, NULL))

\* await listener.stop() returns, in startListener or in stopListener
StopReturns(c) ==
  LET call == sourceMgr.calls[c]
      s1 == [mgr |-> [sourceMgr EXCEPT !.live = @ \ {call.listener}], out |-> <<>>]
  IN /\ call.pc \in {"stopOld", "stopping"}
     /\ IF call.pc = "stopOld"
        THEN commitSources(startNew(s1, c))
        ELSE commitSources(afterStop(sourceEmit([s1 EXCEPT !.mgr.map = 0],
                                                "source:status", "disconnected"),
                                     c, call.then))

\* await listener.start() returns (listeners.set) or throws
StartReturns(c, ok) ==
  LET call == sourceMgr.calls[c]
      s0 == [mgr |-> sourceMgr, out |-> <<>>]
  IN /\ call.pc = "starting"
     /\ IF ok
        THEN commitSources(done(sourceEmit([s0 EXCEPT !.mgr.live = @ \cup {call.listener},
                                                      !.mgr.map = call.listener],
                                           "source:status", "connected"), c))
        ELSE commitSources(done(sourceEmit(s0, "source:status", "error"), c))

\* ------------------------------------------------------------ initial state

InitBase ==
  /\ clock = 0
  /\ sourceMgr = NoSourceManager
  /\ sessions = <<>>
  /\ events = <<>>
  /\ nextId = 1
  /\ connected = [c \in Clients |-> FALSE]
  /\ rooms = [c \in Clients |-> {}]
  /\ inbox = [c \in Clients |-> <<>>]
  /\ published = <<>>
  /\ appendLog = <<>>
  /\ accepted = <<>>
  /\ resp = [status |-> 0, body |-> NULL, data |-> <<>>]
  /\ InitInsightScheduler

\* createCronManager over the jobs js of the table
InitCronManager(js) ==
  /\ running = {}
  /\ cronRun = [j \in js |-> NoRun]
  /\ cronJobs = [j \in js |-> NewJob]

InitCommon == InitBase /\ InitCronManager(Jobs)

\* ------------------------------------------------ Store under the ingest API
StoreKinds ==
  { RawEvent("Stop", NULL, NULL, NoTimestamp),
    RawEvent("SessionEnd", NULL, NULL, NoTimestamp),
    RawEvent("Error", NULL, NULL, NoTimestamp) }
StorePayloads ==
  { [source |-> "claude-code", sessionId |-> sid, event |-> k, user |-> NULL] :
      sid \in ExtSessionIds, k \in StoreKinds }
  \cup
  { [source |-> "claude-code", sessionId |-> sid, event |-> RawEvent("Stop", NULL, NULL, ts), user |-> NULL] :
      sid \in ExtSessionIds, ts \in 1..MaxTs }
  \cup
  { [source |-> "codex", sessionId |-> sid, event |-> RawEvent(NULL, ty, NULL, NoTimestamp), user |-> NULL] :
      sid \in ExtSessionIds, ty \in {"session.end"} }

InitStore == InitCommon /\ authEnabled = FALSE

\* requests served so far: accepted ingests and deletes
StoreServed == Len(appendLog) + countDeletes(published)

NextStore ==
  \/ \E p \in StorePayloads : StoreServed < MaxStoreReqs /\ PostIngest(p, NoCred)
  \/ \E id \in ExtSessionIds : StoreServed < MaxStoreReqs /\ DeleteSessionById(id, NoCred)
  \/ StoreServed < MaxStoreReqs /\ DeleteAllSessions(NoCred)

SpecStore == InitStore /\ [][NextStore]_vars

\* ------------------------------------- ingest, cron runs and realtime clients
S1 == <<"S1", 0>>
CronSid == CronSessionId("j1", 0)
LiveSessionIds == {S1, CronSid}
LivePayloads ==
  { [source |-> "claude-code", sessionId |-> sid, event |-> RawEvent("Stop", NULL, NULL, NoTimestamp), user |-> NULL] :
      sid \in LiveSessionIds }

Init == InitCommon /\ authEnabled = FALSE

\* one socket with its whole life cycle, the ingest route and the cron runner
Next ==
  \/ \E p \in LivePayloads : nextId <= MaxLiveIds /\ PostIngest(p, NoCred) /\ nextId' <= MaxLiveIds + 1
  \/ Connect("c1", NoCred)
  \/ \E id \in LiveSessionIds : Subscribe("c1", id) /\ countName(inbox'["c1"], "session:events") <= MaxSubs
  \/ \E id \in LiveSessionIds : Unsubscribe("c1", id)
  \/ Disconnect("c1")
  \/ \E j \in Jobs : nextId <= MaxLiveIds /\ ScheduledFire(j) /\ nextId' <= MaxLiveIds + 1
  \/ \E j \in Jobs : nextId <= MaxLiveIds /\ TriggerJob(j) /\ nextId' <= MaxLiveIds + 1
  \/ \E j \in Jobs, r \in {"end_turn", "tool_use", "throw"} : nextId <= MaxLiveIds /\ ChatReply(j, r) /\ nextId' <= MaxLiveIds + 1
  \/ \E j \in Jobs : nextId <= MaxLiveIds /\ ToolDone(j) /\ nextId' <= MaxLiveIds + 1

Spec == Init /\ [][Next]_vars

\* two sockets subscribed to the session a cron run and the ingest route write to
NextFanout ==
  \/ \E p \in LivePayloads : nextId <= MaxLiveIds /\ p.sessionId = CronSid /\ PostIngest(p, NoCred) /\ nextId' <= MaxLiveIds + 1
  \/ \E c \in Clients : Connect(c, NoCred)
  \/ \E c \in Clients : Subscribe(c, CronSid) /\ countName(inbox'[c], "session:events") <= MaxSubs
  \/ \E j \in Jobs : nextId <= MaxLiveIds /\ TriggerJob(j) /\ nextId' <= MaxLiveIds + 1
  \/ \E j \in Jobs, r \in {"end_turn", "tool_use", "throw"} : nextId <= MaxLiveIds /\ ChatReply(j, r) /\ nextId' <= MaxLiveIds + 1
  \/ \E j \in Jobs : nextId <= MaxLiveIds /\ ToolDone(j) /\ nextId' <= MaxLiveIds + 1

SpecFanout == Init /\ [][NextFanout]_vars

\* ------------------------------------------- the cron manager with two jobs
InitCron == InitBase /\ InitCronManager(AllJobs) /\ authEnabled = FALSE

NextCron ==
  \/ \E j \in AllJobs : ScheduledFire(j)
  \/ \E j \in AllJobs : ScheduledSkip(j)
  \/ \E j \in AllJobs : TriggerJob(j)
  \/ \E j \in AllJobs : TriggerRefused(j)
  \/ \E j \in AllJobs, r \in {"end_turn", "tool_use", "throw"} : ChatReply(j, r)
  \/ \E j \in AllJobs : ToolDone(j)

SpecCron == InitCron /\ [][NextCron]_vars

\* ------------------------------------------- the runs of the insight scheduler
UserLists == {<<>>, <<"u1", "u2">>}

NextAnalysis ==
  \/ \E c \in {"tick", "runOnStart", "runNow"}, us \in UserLists, t \in BOOLEAN : RunAnalysisJob(c, us, t)
  \/ \E c \in {"tick", "runNow"} : RunSkipped(c)
  \/ \E o \in {"few", "throw", "failed", "ok"}, n \in 0..MaxQuestions, s \in BOOLEAN : AnalysisReply(o, n, s)
  \/ \E t \in BOOLEAN : PostQuestionDone(t)

SpecAnalysis == Init /\ [][NextAnalysis]_vars

\* ------------------------------- one analysis of one user, and its threads
NextRefine ==
  \/ analysis.runs = 0 /\ RunAnalysisJob("runNow", <<"u1">>, FALSE)
  \/ \E n \in 0..MaxQuestions, s \in BOOLEAN : AnalysisReply("ok", n, s)
  \/ PostQuestionDone(FALSE)
  \/ \E q \in DOMAIN questions : ThreadReady(q)
  \/ \E r \in refining, o \in {"throw", "failed", "followups", "none"} : RefineDone(r, o)

SpecRefine == Init /\ [][NextRefine]_vars

\* -------------------------------- one socket that repeats its subscribe request
NextResubscribe ==
  \/ \E p \in LivePayloads : nextId <= MaxLiveIds /\ p.sessionId = S1 /\ PostIngest(p, NoCred) /\ nextId' <= MaxLiveIds + 1
  \/ Connect("c1", NoCred)
  \/ Subscribe("c1", S1)
  \/ Unsubscribe("c1", S1)

SpecResubscribe == Init /\ [][NextResubscribe]_vars

\* --------------------------------------------- the query routes and the clock
\* every kind of event for one session, plain messages for the others
ReadPayloads ==
  { [source |-> "claude-code", sessionId |-> S1, event |-> RawEvent(h, NULL, NULL, NoTimestamp), user |-> NULL] :
      h \in {"Stop", "SessionEnd", "Error"} }
  \cup
  { [source |-> "claude-code", sessionId |-> sid, event |-> RawEvent("Stop", NULL, NULL, NoTimestamp), user |-> NULL] :
      sid \in ExtSessionIds }

NextRead ==
  \/ \E p \in ReadPayloads : nextId <= MaxReadIds /\ PostIngest(p, NoCred)
  \/ GetSessions(NoCred)
  \/ \E id \in ExtSessionIds : GetSessionById(id, NoCred)
  \/ TickMs
  \/ TickLong

SpecRead == Init /\ [][NextRead]_vars

\* ------------------------------ admission of requests and of the handshake
HttpPayloads ==
  { [source |-> "claude-code", sessionId |-> S1, event |-> RawEvent("Stop", NULL, NULL, NoTimestamp), user |-> NULL],
    [source |-> NULL, sessionId |-> S1, event |-> RawEvent("Stop", NULL, NULL, NoTimestamp), user |-> NULL],
    [source |-> "claude-code", sessionId |-> NoSessionId, event |-> RawEvent("Stop", NULL, NULL, NoTimestamp), user |-> NULL],
    [source |-> "claude-code", sessionId |-> S1, event |-> NoEvent, user |-> NULL] }

HttpCreds ==
  { NoCred, ValidCred,
    [apiKey |-> "invalid", cookie |-> NULL],
    [apiKey |-> NULL, cookie |-> "valid"],
    [apiKey |-> NULL, cookie |-> "invalid"],
    [apiKey |-> "invalid", cookie |-> "valid"] }

InitAuth == InitCommon /\ authEnabled \in BOOLEAN

NextAuth ==
  \/ \E p \in HttpPayloads, cred \in HttpCreds : nextId <= MaxAuthIds /\ PostIngest(p, cred)
  \/ \E cred \in HttpCreds : GetSessions(cred)
  \/ \E cred \in HttpCreds : GetSessionById(S1, cred)
  \/ \E cred \in HttpCreds : DeleteSessionById(S1, cred)
  \/ \E cred \in HttpCreds : DeleteAllSessions(cred)
  \/ \E cred \in HttpCreds : Connect("c1", cred)

SpecAuth == InitAuth /\ [][NextAuth]_vars

\* ====================================================== properties: the Store
\* the step inserts exactly one event, NewEvent
Appended == Len(appendLog') = Len(appendLog) + 1
NewEvent == events'[Len(events')]
EventsOf(id) == SelectSeq2(events, id)
PositionIn(seq, x) == CHOOSE i \in 1..Len(seq) : seq[i] = x

\* C1 as stated: after an append, category error gives stored status error,
\* type session.end gives completed, and ANY event appended to a session whose
\* stored status is completed leaves it active.
C1_AsStated ==
  [][Appended =>
       LET e == NewEvent
           id == e.sessionId
       IN /\ (e.category = "error" => sessions'[id].status = "error")
          /\ (e.type = "session.end" => sessions'[id].status = "completed")
          /\ (id \in DOMAIN sessions /\ sessions[id].status = "completed"
                => sessions'[id].status = "active")]_vars

\* C1 amended: after an append of e the stored status is completed if e.type is
\* session.end; otherwise error if e.category is error; otherwise active if the
\* session's stored status was completed.
C1_StatusTransitions ==
  [][Appended =>
       LET e == NewEvent
           id == e.sessionId
       IN /\ (e.type = "session.end" => sessions'[id].status = "completed")
          /\ (e.type # "session.end" /\ e.category = "error" => sessions'[id].status = "error")
          /\ (e.type # "session.end" /\ e.category # "error"
                /\ id \in DOMAIN sessions /\ sessions[id].status = "completed"
                => sessions'[id].status = "active")]_vars

\* a session that holds a session.end event and is stored active again
C1_Witness ==
  \E id \in DOMAIN sessions :
    /\ sessions[id].status = "active"
    /\ \E i \in 1..Len(events) : events[i].sessionId = id /\ events[i].type = "session.end"

\* C3 as stated: an event of any category and type appended while its session
\* does not exist creates the row with startTime = lastEventTime = e.timestamp
\* and stored status active.
C3_AsStated ==
  [][Appended /\ NewEvent.sessionId \notin DOMAIN sessions =>
       LET e == NewEvent
       IN /\ e.sessionId \in DOMAIN sessions'
          /\ sessions'[e.sessionId].startTime = e.timestamp
          /\ sessions'[e.sessionId].lastEventTime = e.timestamp
          /\ sessions'[e.sessionId].status = "active"]_vars

\* C3 amended: the row is created with startTime = lastEventTime = e.timestamp,
\* and its stored status is active unless e is a session.end (then completed)
\* or of category error (then error).
C3_LazyCreation ==
  [][Appended /\ NewEvent.sessionId \notin DOMAIN sessions =>
       LET e == NewEvent
       IN /\ e.sessionId \in DOMAIN sessions'
          /\ sessions'[e.sessionId].startTime = e.timestamp
          /\ sessions'[e.sessionId].lastEventTime = e.timestamp
          /\ sessions'[e.sessionId].status =
               IF e.type = "session.end" THEN "completed"
               ELSE IF e.category = "error" THEN "error"
               ELSE "active"]_vars

\* a session created by a session.end, next to one created by an event that
\* carried an explicit timestamp
C3_Witness ==
  \E id, other \in DOMAIN sessions :
    /\ Len(EventsOf(id)) = 1
    /\ EventsOf(id)[1].type = "session.end"
    /\ sessions[id].status = "completed"
    /\ Len(EventsOf(other)) = 1
    /\ EventsOf(other)[1].timestamp = MaxTs
    /\ sessions[other].startTime = MaxTs
    /\ sessions[other].status = "active"

\* C4: the stored lastEventTime of a session never decreases, whatever
\* timestamps the appended events carry.
C4_LastEventTimeMonotonic ==
  [][\A id \in DOMAIN sessions \cap DOMAIN sessions' :
       sessions'[id].lastEventTime >= sessions[id].lastEventTime]_vars

C8_OneRowKEvents ==
  \A id \in DOMAIN accepted :
    /\ id \in DOMAIN sessions
    /\ Len(EventsOf(id)) = accepted[id]
    /\ Cardinality({e.id : e \in Range(EventsOf(id))}) = accepted[id]
    /\ getSession(id).eventCount = accepted[id]

\* two accepted requests with identical payloads
C8_Witness ==
  \E id \in DOMAIN accepted :
    /\ accepted[id] >= 2
    /\ \E i, j \in 1..Len(events) :
         i # j /\ events[i].sessionId = id /\ [events[i] EXCEPT !.id = events[j].id] = events[j]

\* ============================================ properties: reads and admission
\* the effective status of the stored row of id at the current time
EffectiveStatus(id) ==
  IF sessions[id].status = "active"
  THEN IF clock - sessions[id].lastEventTime > 120000 THEN "completed" ELSE "active"
  ELSE sessions[id].status

\* the summary v shows the stored row of v.id, with the effective status
ShowsStoredRow(v) ==
  /\ v.id \in DOMAIN sessions
  /\ v.status = EffectiveStatus(v.id)
  /\ v.source = sessions[v.id].source
  /\ v.startTime = sessions[v.id].startTime
  /\ v.lastEventTime = sessions[v.id].lastEventTime
  /\ v.metadata = sessions[v.id].metadata

\* C5: getSession and listSessions return, for a row stored active, completed
\* when now - lastEventTime exceeds 120 000 ms and active otherwise, return any
\* other stored status as stored, and leave the stored rows as they were.
C5_EffectiveStatus ==
  [][/\ \A id \in ExtSessionIds :
          GetSessionById(id, NoCred) =>
            /\ UNCHANGED <<sessions, events>>
            /\ IF id \in DOMAIN sessions
               THEN /\ Len(resp'.data) = 1
                    /\ resp'.data[1].id = id
                    /\ ShowsStoredRow(resp'.data[1])
               ELSE resp'.status = 404
     /\ GetSessions(NoCred) =>
          /\ UNCHANGED <<sessions, events>>
          /\ Len(resp'.data) = Cardinality(DOMAIN sessions)
          /\ {resp'.data[i].id : i \in 1..Len(resp'.data)} = DOMAIN sessions
          /\ \A i \in 1..Len(resp'.data) : ShowsStoredRow(resp'.data[i])]_vars

\* a list that shows one row stored active as completed and another, whose
\* last event is exactly 120 000 ms old, as active
C5_Witness ==
  /\ resp.body = "sessions"
  /\ \E i, j \in 1..Len(resp.data) :
       LET old == resp.data[i].id
           new == resp.data[j].id
       IN /\ sessions[old].status = "active"
          /\ clock - sessions[old].lastEventTime > 120000
          /\ resp.data[i].status = "completed"
          /\ sessions[new].status = "active"
          /\ clock - sessions[new].lastEventTime = 120000
          /\ resp.data[j].status = "active"

\* cred holds neither a valid API key nor a valid session cookie
NoValidCredential(cred) == cred.apiKey # "valid" /\ cred.cookie # "valid"

\* all that ib holds is the refusal of the handshake
Refused(ib) ==
  /\ Len(ib) = 1
  /\ ib[1].name = "connect_error"
  /\ ib[1].data = "Authentication required"

LiveAt(ib, s) == {i \in 1..Len(ib) : ib[i].name = "event" /\ ib[i].data.sessionId = s}
\* the positions of ib that hold a snapshot of session s
SnapshotAt(ib, s) == {i \in 1..Len(ib) : ib[i].name = "session:events" /\ ib[i].data.sessionId = s}
Max(S) == CHOOSE x \in S : \A y \in S : y <= x
IdsOf(seq) == {seq[i].id : i \in 1..Len(seq)}

\* C2: a subscriber of s gets the snapshot before any live event of s; the
\* snapshot holds the events appended before the subscribe, every later one
\* arrives live exactly once; none is in both, none is missing from both.
C2_SnapshotThenLive ==
  \A s \in LiveSessionIds :
    LET ib == inbox["c1"]
        live == LiveAt(ib, s)
        snaps == SnapshotAt(ib, s)
    IN /\ \A i \in live : \E k \in snaps : k < i
       /\ snaps # {} =>
            LET k == Max(snaps)
                snapshot == ib[k].data.events
                after == {i \in live : i > k}
                liveIds == {ib[i].data.id : i \in after}
            IN /\ IdsOf(snapshot) \cap liveIds = {}
               /\ Cardinality(liveIds) = Cardinality(after)
               /\ \A a \in IdsOf(snapshot), b \in liveIds :
                    PositionIn(appendLog, a) < PositionIn(appendLog, b)
               /\ \A i \in 1..Len(snapshot) : snapshot[i] \in Range(events)
               /\ s \in rooms["c1"] => IdsOf(EventsOf(s)) = IdsOf(snapshot) \cup liveIds

\* a subscription with a non-empty snapshot followed by live events written by
\* a cron run and by an ingest request
C2_Witness ==
  \E s \in LiveSessionIds :
    LET ib == inbox["c1"]
    IN /\ s \in rooms["c1"]
       /\ \E k \in SnapshotAt(ib, s) :
            /\ ib[k].data.events # <<>>
            /\ \E i, j \in LiveAt(ib, s) :
                 /\ k < i /\ k < j
                 /\ ib[i].data.source = "cron"
                 /\ ib[j].data.source = "claude-code"

\* C7: every subscriber of s receives the live events of s in the order of the
\* appends, so any two subscribers see the events they both receive in one order.
C7_LiveInAppendOrder ==
  \A s \in LiveSessionIds :
    /\ \A c \in Clients :
         \A i, j \in LiveAt(inbox[c], s) :
           i < j => PositionIn(appendLog, inbox[c][i].data.id)
                      < PositionIn(appendLog, inbox[c][j].data.id)
    /\ \A c, d \in Clients :
         \A i, j \in LiveAt(inbox[c], s) : \A m, n \in LiveAt(inbox[d], s) :
           /\ inbox[c][i].data = inbox[d][m].data
           /\ inbox[c][j].data = inbox[d][n].data
           /\ i < j
           => m < n

\* two subscribers that joined at different times, both holding live events
\* of a cron run and of an ingest request
C7_Witness ==
  /\ \A c \in Clients :
       \E i, j \in LiveAt(inbox[c], CronSid) :
         inbox[c][i].data.source = "cron" /\ inbox[c][j].data.source = "claude-code"
  /\ Cardinality(LiveAt(inbox["c1"], CronSid)) # Cardinality(LiveAt(inbox["c2"], CronSid))

\* the positions of the publication log that hold an event
EventPubs == {i \in 1..Len(published) : published[i].name = "event"}
UpdatePubs == {i \in 1..Len(published) : published[i].name = "session:update"}

\* C9: every appended event is in the Store, published once on its session's
\* room, and followed at once by the one session:update of that session on
\* global whose summary counts it; nothing else is published as an event.
C9_AppendThenPublish ==
  /\ Cardinality(EventPubs) = Len(events)
  /\ \A n \in 1..Len(events) :
       \E i \in EventPubs :
         /\ published[i].data = events[n]
         /\ Cardinality({k \in EventPubs : k < i}) = n - 1
  /\ \A i \in EventPubs :
       /\ published[i].room = published[i].data.sessionId
       /\ i + 1 \in UpdatePubs
       /\ published[i + 1].room = GlobalRoom
       /\ published[i + 1].data.id = published[i].room
       /\ published[i + 1].data.eventCount =
            Cardinality({k \in EventPubs : k <= i /\ published[k].room = published[i].room})
  /\ \A i \in UpdatePubs : i - 1 \in EventPubs

\* events of a cron run and of an ingest request published for one session,
\* the last summary counting at least three events
C9_Witness ==
  \E i, j \in EventPubs :
    /\ published[i].data.source = "cron"
    /\ published[j].data.source = "claude-code"
    /\ published[i].room = published[j].room
    /\ published[j + 1].data.eventCount >= 3

\* C11: with authentication enabled a request is admitted if and only if its
\* API key or its session cookie verifies: it is answered 401 only when both
\* fail, whatever the other credential is.
C11_AdmittedIffEitherVerifies ==
  [][authEnabled =>
       \A cred \in HttpCreds :
         GetSessions(cred) => (resp'.status = 401 <=> NoValidCredential(cred))]_vars

C13_NoOverlap ==
  /\ [](\A j \in AllJobs : cronRun[j].pc # "idle" <=> j \in running)
  /\ [][\A j \in AllJobs :
          /\ ScheduledFire(j) \/ TriggerJob(j) => cronRun[j].pc = "idle"
          /\ ScheduledSkip(j) \/ TriggerRefused(j)
             => /\ UNCHANGED <<sessions, events, nextId, appendLog, published, inbox, running, cronJobs>>
                /\ cronRun'[j].pc = cronRun[j].pc
                /\ cronRun'[j].sessionId = cronRun[j].sessionId]_vars

\* both jobs executing at once, a firing skipped and a trigger refused meanwhile
C13_Witness ==
  /\ running = AllJobs
  /\ cronRun["j1"].skips >= 1
  /\ cronRun["j1"].refusals >= 1
  /\ cronRun["j1"].sessionId # cronRun["j2"].sessionId

\* the events of the runs of job j, in the order of their insertion
RunEvents(j) ==
  LET Mine(e) == e.sessionId[1] = CronPrefix(j)
  IN SelectSeq(events, Mine)

\* where a run stands after an event of type t: place in the order of a run,
\* and the number of tool calls started and not yet ended
RunStep(at, t) ==
  CASE at.place = "idle" /\ t = "session.start" -> [place |-> "started", open |-> 0]
    [] at.place = "started" /\ t = "message.user" -> [place |-> "loop", open |-> 0]
    [] at.place \in {"loop", "starts"} /\ t = "tool.start" -> [place |-> "starts", open |-> at.open + 1]
    [] at.place \in {"starts", "ends"} /\ t = "tool.end" /\ at.open > 1 -> [place |-> "ends", open |-> at.open - 1]
    [] at.place \in {"starts", "ends"} /\ t = "tool.end" /\ at.open = 1 -> [place |-> "loop", open |-> 0]
    [] at.place = "loop" /\ t = "message.assistant" -> [place |-> "final", open |-> 0]
    [] at.place = "loop" /\ t = "error" -> [place |-> "final", open |-> 0]
    [] at.place \in {"loop", "final"} /\ t = "session.end" -> [place |-> "idle", open |-> 0]
    [] OTHER -> [place |-> "out of order", open |-> 0]

RECURSIVE RunPlace(_)
RunPlace(evs) ==
  IF evs = <<>> THEN [place |-> "idle", open |-> 0]
  ELSE RunStep(RunPlace(SubSeq(evs, 1, Len(evs) - 1)), evs[Len(evs)].type)

C15_ThrowEndsRun ==
  [][\A j \in AllJobs :
       ChatReply(j, "throw") =>
         LET n == Len(events)
             sid == cronRun[j].sessionId
             first == CHOOSE i \in 1..n :
                        /\ events[i].sessionId = sid /\ events[i].type = "session.start"
                        /\ \A k \in (i + 1)..n :
                             ~(events[k].sessionId = sid /\ events[k].type = "session.start")
         IN /\ Len(events') = n + 2
            /\ SubSeq(events', 1, n) = events
            /\ events'[n + 1].sessionId = sid
            /\ events'[n + 1].category = "error"
            /\ events'[n + 2].sessionId = sid
            /\ events'[n + 2].type = "session.end"
            /\ \A k \in first..(n + 2) :
                 events'[k].sessionId = sid => events'[k].type # "message.assistant"
            /\ cronJobs'[j].lastRunStatus = "error"
            /\ j \notin running'
            /\ cronRun'[j].pc = "idle"]_vars

\* a job that failed is running again, and so is the other job
C15_Witness ==
  /\ \E i \in 1..Len(events) : events[i].category = "error" /\ events[i].sessionId[1] = CronPrefix("j1")
  /\ cronJobs["j1"].totalRuns = 1
  /\ running = AllJobs

\* ============================================ properties: the insight scheduler
\* C16: at most one analysis run executes at a time: a run starts only while
\* none is executing, a request that finds one executing analyses no user, and
\* the in-progress flag is cleared whenever a run ends, also after a throw.
C16_OneAnalysisRun ==
  /\ [](isAnalyzing <=> analysis.pc # "idle")
  /\ [][/\ (\E c \in {"tick", "runOnStart", "runNow"}, us \in UserLists, t \in BOOLEAN :
              RunAnalysisJob(c, us, t)) => analysis.pc = "idle"
        /\ (\E c \in {"tick", "runNow"} : RunSkipped(c))
           => /\ UNCHANGED <<isAnalyzing, insights, questions, published, inbox>>
              /\ analysis'.pc = analysis.pc
              /\ analysis'.todo = analysis.todo
        /\ (\E n \in 0..MaxQuestions, s \in BOOLEAN : AnalysisReply("throw", n, s))
           => (Len(analysis.todo) = 1 => ~isAnalyzing')]_vars

\* a second run executes, after a request was skipped during the first
C16_Witness ==
  /\ analysis.runs = 2
  /\ analysis.skips >= 1
  /\ isAnalyzing
  /\ analysis.pc = "analyzing"

\* question rounds of insight id: the one of its creation and one for every
\* refinement that left it preliminary
QuestionRounds(id) ==
  1 + Cardinality({k \in 1..Len(published) :
                     /\ published[k].name = "insight:updated"
                     /\ published[k].data[1] = id
                     /\ published[k].data[2] = "preliminary"})

\* C17: every refinement leaves the insight refined, or preliminary with more
\* answers received than before it; an insight has at most 3 question rounds.
C17_RefinementMonotonic ==
  /\ [][\A r \in refining, o \in {"followups", "none"} :
          RefineDone(r, o) =>
            \/ insights'[r.insight].phase = "refined"
            \/ /\ insights'[r.insight].phase = "preliminary"
               /\ insights'[r.insight].answersReceived > insights[r.insight].answersReceived]_vars
  /\ [](\A id \in DOMAIN insights :
          insights[id].phase = "preliminary" => QuestionRounds(id) <= DEFAULT_MAX_QUESTION_ROUNDS)

\* C18: the phase of a stored insight changes only from preliminary to refined.
C18_PhaseOrder ==
  [][\A id \in DOMAIN insights :
       insights'[id].phase # insights[id].phase
         => insights[id].phase = "preliminary" /\ insights'[id].phase = "refined"]_vars

\* ============================================ properties: subscriptions
\* what a step adds to the inbox of c and to the published messages
NewMsgs(c) == SubSeq(inbox'[c], Len(inbox[c]) + 1, Len(inbox'[c]))
NewPubs == SubSeq(published', Len(published) + 1, Len(published'))

\* C19: a live event of s reaches a client only if it is connected and in the
\* room of s when the event is published; unsubscribe and disconnect take it
\* out of the room; a global message reaches every connected client.
C19_DeliveryFollowsSubscription ==
  [][\A c \in Clients :
       /\ \A k \in 1..Len(NewMsgs(c)) :
            NewMsgs(c)[k].name = "event" =>
              /\ connected[c]
              /\ NewMsgs(c)[k].data.sessionId \in rooms[c]
              /\ \E p \in 1..Len(NewPubs) :
                   /\ NewPubs[p].room = NewMsgs(c)[k].data.sessionId
                   /\ NewPubs[p].name = "event"
                   /\ NewPubs[p].data = NewMsgs(c)[k].data
       /\ \A s \in LiveSessionIds : Unsubscribe(c, s) => s \notin rooms'[c]
       /\ Disconnect(c) => ~connected'[c] /\ rooms'[c] = {}
       /\ connected[c] =>
            \A p \in 1..Len(NewPubs) :
              NewPubs[p].room = GlobalRoom =>
                \E k \in 1..Len(NewMsgs(c)) :
                  /\ NewMsgs(c)[k].name = NewPubs[p].name
                  /\ NewMsgs(c)[k].data = NewPubs[p].data]_vars

\* a client that got a live event of s, unsubscribed, and then got the global
\* message of a later event of s but not the event
C19_Witness ==
  \E s \in LiveSessionIds :
    LET ib == inbox["c1"]
    IN /\ connected["c1"]
       /\ s \notin rooms["c1"]
       /\ LiveAt(ib, s) # {}
       /\ ib[Len(ib)].name = "session:update"
       /\ \E p \in 1..Len(published) :
            /\ published[p].room = s
            /\ \A i \in LiveAt(ib, s) :
                 PositionIn(appendLog, ib[i].data.id) < PositionIn(appendLog, published[p].data.id)

\* C20: repeated subscribe requests for s make one subscription: an event
\* published for s is delivered once to a client in the room and not at all
\* after a single unsubscribe.
C20_SingleSubscription ==
  [][/\ \A p \in LivePayloads :
          PostIngest(p, NoCred) /\ p.sessionId = S1 =>
            Cardinality({k \in 1..Len(NewMsgs("c1")) : NewMsgs("c1")[k].name = "event"})
              = IF S1 \in rooms["c1"] THEN 1 ELSE 0
     /\ Subscribe("c1", S1) => S1 \in rooms'["c1"]
     /\ Unsubscribe("c1", S1) => S1 \notin rooms'["c1"]
     /\ \A i, j \in LiveAt(inbox'["c1"], S1) :
          inbox'["c1"][i].data.id = inbox'["c1"][j].data.id => i = j]_vars

\* two subscribe requests, then an event delivered once, then one unsubscribe
\* and an event that is not delivered
C20_Witness ==
  LET ib == inbox["c1"]
  IN /\ Len(ib) >= 5
     /\ ib[2].name = "session:events"
     /\ ib[3].name = "session:events"
     /\ Cardinality(LiveAt(ib, S1)) = 1
     /\ Len(appendLog) = 2
     /\ S1 \notin rooms["c1"]
     /\ ib[Len(ib)].name = "session:update"

\* ==================================================== properties: deletion
\* the message published last has this name
LastPublished(name) == published # <<>> /\ published[Len(published)].name = name

\* C21: DELETE /api/sessions/:id removes the row and the events of that
\* session only and publishes session:deleted with the id; DELETE /api/sessions
\* removes every row and event and publishes sessions:cleared; a removed
\* session is absent from getSession and listSessions afterwards.
C21_DeleteRemoves ==
  [][/\ \A id \in ExtSessionIds :
          LastPublished("session:deleted")' /\ DeleteSessionById(id, NoCred) =>
            /\ id \notin DOMAIN sessions'
            /\ \A i \in 1..Len(events') : events'[i].sessionId # id
            /\ \A k \in DOMAIN sessions \ {id} :
                 /\ k \in DOMAIN sessions'
                 /\ sessions'[k] = sessions[k]
                 /\ SelectSeq2(events', k) = SelectSeq2(events, k)
            /\ DOMAIN sessions' \subseteq DOMAIN sessions
            /\ published' = Append(published, Pub(GlobalRoom, "session:deleted", id))
            /\ getSession(id)' = NoRow
            /\ \A i \in 1..Len(listSessions') : listSessions'[i].id # id
     /\ LastPublished("sessions:cleared")' /\ DeleteAllSessions(NoCred) =>
          /\ sessions' = <<>>
          /\ events' = <<>>
          /\ published' = Append(published, Pub(GlobalRoom, "sessions:cleared", NULL))
          /\ \A id \in ExtSessionIds : getSession(id)' = NoRow
          /\ listSessions' = <<>>]_vars

\* one of two sessions with events has been deleted
C21_Witness ==
  /\ Len(appendLog) = 2
  /\ Len(events) = 1
  /\ DOMAIN sessions = {events[1].sessionId}
  /\ published[Len(published)].name = "session:deleted"

\* ------------------------------------------------- appends the Store rejects
MaxAppendIds == 3

\* payloads whose event the Store takes, and payloads whose text or error is a
\* JSON object, which the insert into events cannot bind
AppendPayloads ==
  { [source |-> "claude-code", sessionId |-> sid, event |-> e, user |-> NULL] :
      sid \in ExtSessionIds,
      e \in { RawEvent("Stop", NULL, NULL, NoTimestamp),
              RawEvent("SessionEnd", NULL, NULL, NoTimestamp),
              [RawEvent("Stop", NULL, NULL, NoTimestamp) EXCEPT !.result = ObjectValue],
              [RawEvent("Error", NULL, NULL, NoTimestamp) EXCEPT !.error = ObjectValue] } }

NextAppend ==
  \/ \E p \in AppendPayloads : nextId <= MaxAppendIds /\ PostIngest(p, NoCred)
  \/ \E id \in ExtSessionIds : GetSessionById(id, NoCred)
  \/ TickMs

SpecAppend == InitStore /\ [][NextAppend]_vars

\* ------------------------------------------------- properties: atomic append
\* C22: append is all-or-nothing: an ingest whose append fails (it is answered
\* 500, no event is added) leaves every session row as it was, no row is
\* created and no lastEventTime or status changes; so no reader sees a session
\* row updated for an event that is not stored.
C22_AppendAllOrNothing ==
  [][(\E p \in AppendPayloads : PostIngest(p, NoCred)) /\ events' = events
       => sessions' = sessions]_vars

\* ------------------------------------------------- normalize under the ingest API
MaxNormIds == 1

\* a timestamp field that holds a string such as "yesterday": SQLite keeps it
\* as text, and text sorts after every number
TextTimestamp == 2000000000
IsNumber(timestamp) == timestamp < TextTimestamp

\* outputs below, at and above MAX_OUTPUT_SIZE
OutputSizes == {5, MAX_OUTPUT_SIZE, MAX_OUTPUT_SIZE + 1, 15000}

\* the payloads normalize is checked on, by dialect
NormPayloads ==
  LET \* hook events of the claude-code dialect, every other field absent; the last
      \* two give the name in event.type, or nowhere
      ClaudeHooks ==
        { RawEvent(h, NULL, NULL, NoTimestamp) :
            h \in {"SessionStart", "SessionEnd", "Notification", "session.start", "session.end",
                   "message.user", "tool.start", "error"} }
        \cup { RawEvent(NULL, "SessionEnd", NULL, NoTimestamp), RawEvent(NULL, NULL, NULL, NoTimestamp) }

      ClaudePrompts ==
        { [RawEvent("UserPromptSubmit", NULL, NULL, NoTimestamp) EXCEPT
             !.user_message = a, !.message = b, !.text = c, !.prompt = d] :
            a \in {NULL, "from user_message"}, b \in {NULL, "from message"},
            c \in {NULL, "from text"}, d \in {NULL, "from prompt"} }

      ClaudeToolStarts ==
        { [RawEvent("PreToolUse", NULL, NULL, NoTimestamp) EXCEPT
             !.tool_name = a, !.toolName = b, !.tool_input = c] :
            a \in {NULL, "Read"}, b \in {NULL, "Edit"}, c \in {NULL, "{file_path}"} }

      ClaudeToolEnds ==
        { [RawEvent(h, NULL, NULL, NoTimestamp) EXCEPT
             !.tool_name = "Read", !.tool_response = a, !.tool_output = b, !.toolOutput = c] :
            h \in {"PostToolUse", "tool.end"},
            a \in {NoValue} \cup {Value(n) : n \in OutputSizes},
            b \in {NoValue, Value(7)}, c \in {NoValue, Value(12000)} }

      ClaudeStops ==
        { [RawEvent("Stop", NULL, NULL, ts) EXCEPT
             !.result = a, !.response = b, !.stop_reason = c] :
            ts \in {NoTimestamp},
            a \in {NULL, "from result"}, b \in {NULL, "from response"},
            c \in {NULL, "", "end_turn"} }
        \cup { RawEvent("Stop", NULL, NULL, ts) : ts \in {5, TextTimestamp} }
        \cup { [RawEvent("message.assistant", NULL, NULL, NoTimestamp) EXCEPT !.message = a, !.text = b] :
                 a \in {NULL, "from message"}, b \in {NULL, "from text"} }

      ClaudeErrors ==
        { [RawEvent("Error", NULL, NULL, NoTimestamp) EXCEPT !.error = a, !.message = b] :
            a \in {NULL, "from error"}, b \in {NULL, "from message"} }

      ClaudeEvents ==
        ClaudeHooks \cup ClaudePrompts \cup ClaudeToolStarts \cup ClaudeToolEnds
          \cup ClaudeStops \cup ClaudeErrors

      CodexTurns ==
        { RawEvent(NULL, ty, NULL, ts) :
            ty \in {"thread.started", "turn.started", "turn.completed", "session.end", NULL},
            ts \in {NoTimestamp} }
        \cup { RawEvent(NULL, "thread.started", NULL, ts) : ts \in {5, TextTimestamp} }

      CodexItems ==
        { [RawEvent(NULL, ty, it, NoTimestamp) EXCEPT
             !.itemCommand = "ls", !.itemFile = "src/index.ts", !.itemPatch = Value(n),
             !.itemContent = "Fixed it.", !.itemOutput = Value(n)] :
            ty \in {"item.started", "item.completed"},
            it \in {"command_execution", "file_change", "agent_message", "reasoning"},
            n \in {5, 15000} }
        \cup { RawEvent(NULL, ty, it, NoTimestamp) :
                 ty \in {"item.started", "item.completed"},
                 it \in {"command_execution", "file_change", "agent_message", NULL} }

      CodexErrors ==
        { [RawEvent(NULL, "error", NULL, NoTimestamp) EXCEPT !.error = a, !.message = b] :
            a \in {NULL, "from error"}, b \in {NULL, "from message"} }

      CodexEvents == CodexTurns \cup CodexItems \cup CodexErrors

      \* events of the opencode hook dialect and of its jsonl dialect; normalize reads
      \* none of their fields but type
      OpencodeEvents ==
        { RawEvent(NULL, ty, NULL, NoTimestamp) :
            ty \in {"session.created", "session.idle", "message.part.updated", "message.updated",
                    "step_start", "text", "tool_use", "step_finish"} }
  IN { [source |-> "claude-code", sessionId |-> <<"S1", 0>>, event |-> e, user |-> NULL] : e \in ClaudeEvents }
    \cup { [source |-> "codex", sessionId |-> <<"S1", 0>>, event |-> e, user |-> NULL] : e \in CodexEvents }
    \cup { [source |-> "opencode", sessionId |-> <<"S1", 0>>, event |-> e, user |-> NULL] : e \in OpencodeEvents }

NextNormalize ==
  \/ \E p \in NormPayloads : nextId <= MaxNormIds /\ PostIngest(p, NoCred)
  \/ TickMs

SpecNormalize == InitStore /\ [][NextNormalize]_vars

\* the event of the row appended last
Stored == events[Len(events)]

\* ------------------------------------------- properties: the normalizer
\* the names the claude-code dialect dispatches on, and the codex types
ClaudeNames ==
  {"SessionStart", "UserPromptSubmit", "PreToolUse", "PostToolUse", "Stop", "SessionEnd", "Error"}
ClaudeAliases ==
  {"session.start", "message.user", "tool.start", "tool.end", "message.assistant",
   "session.end", "error"}
CodexTypes ==
  {"thread.started", "turn.started", "turn.completed", "item.started", "item.completed", "error"}
CodexItemTypes == {"command_execution", "file_change", "agent_message"}

\* no rule of the payload's dialect matches it
Unmatched(p) ==
  IF p.source = "codex"
  THEN \/ p.event.type \notin CodexTypes
       \/ p.event.type \in {"item.started", "item.completed"} /\ p.event.itemType \notin CodexItemTypes
  ELSE p.source = "claude-code" /\ hookEventOf(p.event) \notin ClaudeNames \cup ClaudeAliases

\* C23: normalize never fails, and every raw event no dialect rule matches (an
\* unknown hook name, an unknown codex event.type, a codex item.started or
\* item.completed with an unrecognised item.type) is stored as an event of
\* category system that carries the raw payload under meta.rawEvent.
C23_UnmatchedKeepsRaw ==
  [][\A p \in NormPayloads :
       PostIngest(p, NoCred) =>
         /\ resp'.status = 200
         /\ Len(events') = Len(events) + 1
         /\ Unmatched(p) =>
              /\ Stored'.category = "system"
              /\ "rawEvent" \in DOMAIN Stored'.meta
              /\ Stored'.meta.rawEvent = p.event]_vars

RECURSIVE FirstNonNull(_)
\* the first element of a sequence of strings that is not null, else null
FirstNonNull(s) ==
  IF s = <<>> THEN NULL ELSE IF s[1] # NULL THEN s[1] ELSE FirstNonNull(Tail(s))

RECURSIVE FirstValue(_)
\* the first element of a sequence of tool outputs that is not null, else null
FirstValue(s) ==
  IF s = <<>> THEN NoValue ELSE IF s[1] # NoValue THEN s[1] ELSE FirstValue(Tail(s))

\* a tool output after the size limiter: within 10 000 characters as it
\* came, else its first 10 000 characters and "... [truncated, N chars total]"
Limited(value) ==
  IF value = NoValue \/ value.chars <= 10000 THEN value
  ELSE [chars |-> value.chars, kept |-> 10000, marker |-> "... [truncated, N chars total]"]

\* category and type of an event
Kind(e) == <<e.category, e.type>>

\* the event carries the raw payload under meta.rawEvent
KeepsRaw(e, raw) == "rawEvent" \in DOMAIN e.meta /\ e.meta.rawEvent = raw

\* the claude-code rules that both the statement and its correction give for
\* the seven hook names; n is the name the payload is dispatched on
ClaudeRules(n, raw, e) ==
  /\ n = "SessionStart" => Kind(e) = <<"session", "session.start">>
  /\ n = "UserPromptSubmit" =>
       /\ Kind(e) = <<"message", "message.user">>
       /\ e.role = "user"
       /\ e.text = FirstNonNull(<<raw.user_message, raw.message, raw.text, raw.prompt>>)
  /\ n = "PreToolUse" =>
       /\ Kind(e) = <<"tool", "tool.start">>
       /\ e.toolName = FirstNonNull(<<raw.tool_name, raw.toolName>>)
       /\ e.toolInput = FirstNonNull(<<raw.tool_input, raw.toolInput>>)
  /\ n = "Stop" =>
       /\ Kind(e) = <<"message", "message.assistant">>
       /\ e.role = "assistant"
       /\ e.text = FirstNonNull(<<raw.result, raw.response>>)
       /\ raw.stop_reason \notin {NULL, ""} =>
            "stop_reason" \in DOMAIN e.meta /\ e.meta.stop_reason = raw.stop_reason
  /\ n = "SessionEnd" => Kind(e) = <<"session", "session.end">>
  /\ n = "Error" => Kind(e) = <<"error", "error">>

\* C24 as stated: claude-code payloads are mapped by hook_event_name; the seven
\* hook names as listed, PostToolUse with toolOutput = truncated tool_response,
\* else tool_output; any other name gives category system, type = the raw
\* name and meta.rawEvent = the raw payload.
C24_AsStated ==
  [][\A p \in NormPayloads :
       p.source = "claude-code" /\ p.event.hook_event_name # NULL /\ PostIngest(p, NoCred) =>
         LET n == p.event.hook_event_name
             e == Stored'
         IN /\ ClaudeRules(n, p.event, e)
            /\ n = "PostToolUse" =>
                 /\ Kind(e) = <<"tool", "tool.end">>
                 /\ e.toolOutput = Limited(FirstValue(<<p.event.tool_response, p.event.tool_output>>))
            /\ n \notin ClaudeNames =>
                 /\ Kind(e) = <<"system", n>>
                 /\ KeepsRaw(e, p.event)]_vars

\* C24: claude-code payloads are mapped by the first non-null of
\* hook_event_name, event.event and event.type (else the empty name): the seven
\* hook names as listed, each but Stop also under its dotted name
\* (session.start, message.user, tool.start, tool.end, session.end, error);
\* PostToolUse with toolOutput = truncated first non-null of tool_response,
\* tool_output, toolOutput; message.assistant gives an assistant message with
\* text = message, else text; any other name gives category system, type = the
\* name and meta.rawEvent = the raw payload.
C24_ClaudeMapping ==
  [][\A p \in NormPayloads :
       p.source = "claude-code" /\ PostIngest(p, NoCred) =>
         LET raw == p.event
             d == FirstNonNull(<<raw.hook_event_name, raw.event, raw.type, "">>)
             n == CASE d = "session.start" -> "SessionStart"
                    [] d = "message.user" -> "UserPromptSubmit"
                    [] d = "tool.start" -> "PreToolUse"
                    [] d = "tool.end" -> "PostToolUse"
                    [] d = "session.end" -> "SessionEnd"
                    [] d = "error" -> "Error"
                    [] OTHER -> d
             e == Stored'
         IN /\ e.source = "claude-code"
            /\ ClaudeRules(n, raw, e)
            /\ n = "PostToolUse" =>
                 /\ Kind(e) = <<"tool", "tool.end">>
                 /\ e.toolOutput = Limited(FirstValue(<<raw.tool_response, raw.tool_output, raw.toolOutput>>))
            /\ n = "message.assistant" =>
                 /\ Kind(e) = <<"message", "message.assistant">>
                 /\ e.role = "assistant"
                 /\ e.text = FirstNonNull(<<raw.message, raw.text>>)
            /\ n \notin ClaudeNames \cup {"message.assistant"} =>
                 /\ Kind(e) = <<"system", n>>
                 /\ KeepsRaw(e, raw)]_vars

\* a Stop payload with result, response and stop_reason has been stored
C24_Witness ==
  /\ events # <<>>
  /\ Kind(Stored) = <<"message", "message.assistant">>
  /\ Stored.text = "from result"
  /\ "stop_reason" \in DOMAIN Stored.meta

\* C25: codex payloads are mapped by event.type and event.item.type:
\* thread.started gives session.start, turn.started (system, turn.start),
\* turn.completed (session, session.end); item.started on command_execution
\* or file_change gives tool.start with that toolName and toolInput =
\* item.command, or {file, patch}; item.started or item.completed on
\* agent_message gives message.assistant with text = item.content;
\* item.completed on command_execution or file_change gives tool.end with
\* that toolName and the truncated output (item.output, or item.patch);
\* error gives category error.
C25_CodexMapping ==
  [][\A p \in NormPayloads :
       p.source = "codex" /\ PostIngest(p, NoCred) =>
         LET raw == p.event
             t == raw.type
             it == raw.itemType
             e == Stored'
         IN /\ e.source = "codex"
            /\ t = "thread.started" => Kind(e) = <<"session", "session.start">>
            /\ t = "turn.started" => Kind(e) = <<"system", "turn.start">>
            /\ t = "turn.completed" => Kind(e) = <<"session", "session.end">>
            /\ t = "item.started" /\ it = "command_execution" =>
                 /\ Kind(e) = <<"tool", "tool.start">>
                 /\ e.toolName = "command_execution"
                 /\ e.toolInput = raw.itemCommand
            /\ t = "item.started" /\ it = "file_change" =>
                 /\ Kind(e) = <<"tool", "tool.start">>
                 /\ e.toolName = "file_change"
                 /\ e.toolInput = [file |-> raw.itemFile, patch |-> raw.itemPatch]
            /\ t \in {"item.started", "item.completed"} /\ it = "agent_message" =>
                 /\ Kind(e) = <<"message", "message.assistant">>
                 /\ e.role = "assistant"
                 /\ e.text = raw.itemContent
            /\ t = "item.completed" /\ it = "command_execution" =>
                 /\ Kind(e) = <<"tool", "tool.end">>
                 /\ e.toolName = "command_execution"
                 /\ e.toolOutput = Limited(raw.itemOutput)
            /\ t = "item.completed" /\ it = "file_change" =>
                 /\ Kind(e) = <<"tool", "tool.end">>
                 /\ e.toolName = "file_change"
                 /\ e.toolOutput = Limited(raw.itemPatch)
            /\ t = "error" => e.category = "error"]_vars

\* a codex item.completed with an output of 15 000 characters has been stored
C25_Witness ==
  /\ events # <<>>
  /\ Stored.source = "codex"
  /\ Kind(Stored) = <<"tool", "tool.end">>
  /\ Stored.toolName = "command_execution"
  /\ Stored.toolOutput.chars = 15000

\* C26: for source opencode the stored and delivered event and the session it
\* creates carry source = opencode, and the payload is normalized by the
\* opencode dialect: session.created gives session.start, session.idle
\* session.end, message.part.updated a tool.start, tool.end, message.user or
\* message.assistant event, message.updated without a text part a system
\* event of type message.updated, and the jsonl events step_start, text,
\* tool_use, step_finish give step.start, message.assistant, tool.start or
\* tool.end, step.finish.
C26_OpencodeDialect ==
  [][\A p \in NormPayloads :
       p.source = "opencode" /\ PostIngest(p, NoCred) =>
         LET t == p.event.type
             e == Stored'
         IN /\ e.source = "opencode"
            /\ sessions'[p.sessionId].source = "opencode"
            /\ published'[Len(published') - 1].data.source = "opencode"
            /\ t = "session.created" => e.type = "session.start"
            /\ t = "session.idle" => e.type = "session.end"
            /\ t = "message.part.updated" =>
                 e.type \in {"tool.start", "tool.end", "message.user", "message.assistant"}
            /\ t = "message.updated" => Kind(e) = <<"system", "message.updated">>
            /\ t = "step_start" => e.type = "step.start"
            /\ t = "text" => e.type = "message.assistant"
            /\ t = "tool_use" => e.type \in {"tool.start", "tool.end"}
            /\ t = "step_finish" => e.type = "step.finish"]_vars

\* -------------------------------------------- tool outputs of ingests and runs
MaxOutputIds == 2

OutputPayloads ==
  { [source |-> "claude-code", sessionId |-> <<"S1", 0>>, user |-> NULL,
     event |-> [RawEvent("PostToolUse", NULL, NULL, NoTimestamp) EXCEPT !.tool_output = Value(n)]] :
      n \in OutputSizes }
  \cup
  { [source |-> "codex", sessionId |-> <<"S1", 0>>, user |-> NULL,
     event |-> [RawEvent(NULL, "item.completed", "command_execution", NoTimestamp) EXCEPT
                  !.itemOutput = Value(n)]] :
      n \in OutputSizes }

\* results and error messages below and above the limits
ToolOutcomes == { [threw |-> threw, chars |-> n] : threw \in BOOLEAN, n \in {5, 15000} }

NextOutput ==
  \/ \E p \in OutputPayloads : nextId <= MaxOutputIds /\ PostIngest(p, NoCred)
  \/ \E j \in Jobs : TriggerJob(j)
  \/ \E j \in Jobs, r \in {"end_turn", "tool_use"} : ChatReply(j, r)
  \/ \E j \in Jobs, o \in ToolOutcomes : ToolDoneWith(j, o)

SpecOutput == InitStore /\ [][NextOutput]_vars

\* ------------------------------------------- properties: the size limiter
\* C27: every stored event with a toolOutput, normalized from an ingest
\* payload of any source or emitted by a cron run, holds an output within
\* 10 000 characters as it came, or the first 10 000 characters of a longer
\* one followed by "... [truncated, N chars total]", N its length; so its
\* serialised toolOutput has at most 10 000 characters plus the marker.
C27_OutputLimited ==
  \A i \in 1..Len(events) :
    LET v == events[i].toolOutput
    IN v # NoValue =>
         /\ \/ v.chars <= 10000 /\ v = Value(v.chars)
            \/ /\ v.chars > 10000
               /\ v = [chars |-> v.chars, kept |-> 10000, marker |-> "... [truncated, N chars total]"]
         /\ StrLength(v) <= 10000 + 16 + Digits(v.chars) + 13

\* ------------------------------------------- properties: the timestamp
\* C28: the normalized event's timestamp is the payload's timestamp field
\* when that field is a number, and the current time in every other case
\* (field absent, null, or of another type such as a string); the stored
\* timestamp is always a number.
C28_TimestampNumberOrNow ==
  [][\A p \in NormPayloads :
       PostIngest(p, NoCred) =>
         LET timestamp == p.event.timestamp
         IN /\ Stored'.timestamp =
                 IF timestamp # NoTimestamp /\ IsNumber(timestamp) THEN timestamp ELSE clock
            /\ IsNumber(Stored'.timestamp)]_vars

\* ------------------------------------------------ metadata of ingested sessions
MaxMetaIds == 4

\* ingests with and without user and git, into a session of their own and into
\* the session of a cron run, whose metadata has the keys title and cronJob
MetaPayloads ==
  { [source |-> "claude-code", sessionId |-> sid, user |-> u, git |-> g,
     event |-> RawEvent("Stop", NULL, NULL, NoTimestamp)] :
      sid \in LiveSessionIds, u \in {NULL, EmptyObject, "alice"}, g \in {NULL, "main"} }

NextMeta ==
  \/ \E p \in MetaPayloads : nextId <= MaxMetaIds /\ PostIngest(p, NoCred)
  \/ nextId <= MaxMetaIds /\ TriggerJob("j1")
  \/ nextId <= MaxMetaIds /\ ChatReply("j1", "end_turn")

SpecMeta == InitStore /\ [][NextMeta]_vars

\* ------------------------------------------- properties: session metadata
\* C29: after an accepted ingest that carries user and/or git the session's
\* metadata has key user equal to the supplied user and key git equal to the
\* supplied git, every other key keeps its value; an ingest carrying neither
\* leaves the metadata unchanged; and the merge changes nothing else: status,
\* startTime, lastEventTime and the events are as the append left them.
C29_MetadataMerge ==
  [][\A p \in MetaPayloads :
       PostIngest(p, NoCred) =>
         LET id == p.sessionId
             before == IF id \in DOMAIN sessions THEN sessions[id].metadata ELSE <<>>
             after == sessions'[id].metadata
             st == addEvent(sessions, events, normalize(splice(p), clock))
         IN /\ p.user # NULL => "user" \in DOMAIN after /\ after.user = p.user
            /\ p.git # NULL => "git" \in DOMAIN after /\ after.git = p.git
            /\ \A k \in DOMAIN before \ {"user", "git"} : k \in DOMAIN after /\ after[k] = before[k]
            /\ DOMAIN after \subseteq DOMAIN before \cup {"user", "git"}
            /\ p.user = NULL /\ p.git = NULL => after = before
            /\ [sessions'[id] EXCEPT !.metadata = <<>>] = [st.sessions[id] EXCEPT !.metadata = <<>>]
            /\ events' = st.events]_vars

\* ------------------------------------------------ Stop events with a transcript
MaxTranscriptIds == 1

\* Stop payloads of every source naming each of the transcript files, with and
\* without result and response, and an event that is not a Stop
TranscriptPayloads ==
  { [source |-> s, sessionId |-> sid, user |-> NULL,
     event |-> [RawEvent("Stop", NULL, NULL, NoTimestamp) EXCEPT
                  !.transcript_path = path, !.result = a, !.response = b]] :
      s \in {"claude-code", "codex", "opencode"}, sid \in ExtSessionIds,
      path \in {"missing", "unreadable", "garbage", "silent", "empty", "good"},
      a \in {NULL, "from result"}, b \in {NULL, "from response"} }
  \cup
  { [source |-> "claude-code", sessionId |-> sid, user |-> NULL,
     event |-> [RawEvent("SessionEnd", NULL, NULL, NoTimestamp) EXCEPT !.transcript_path = "good"]] :
      sid \in ExtSessionIds }

NextTranscript ==
  \/ \E p \in TranscriptPayloads : nextId <= MaxTranscriptIds /\ PostIngest(p, NoCred)
  \/ TickMs

SpecTranscript == InitStore /\ [][NextTranscript]_vars

\* ------------------------------------------- properties: the transcript step
\* C30: for a claude-code Stop event without result but with a
\* transcript_path no failure of the transcript step (file missing,
\* unreadable, lines that are not JSON, no assistant text) makes the ingest
\* fail: the event is appended and published as message.assistant and the
\* response is 200, the text null when nothing was extracted (and the payload
\* has no response either); the transcript is read only for source claude-code
\* with hook_event_name Stop, any other payload is normalized as it came.
C30_TranscriptSilent ==
  [][\A p \in TranscriptPayloads :
       PostIngest(p, NoCred) =>
         /\ p.source = "claude-code" /\ p.event.hook_event_name = "Stop"
              /\ p.event.result = NULL /\ p.event.transcript_path # NULL =>
              /\ resp' = Ok
              /\ Len(events') = Len(events) + 1
              /\ Kind(Stored') = <<"message", "message.assistant">>
              /\ published'[Len(published') - 1] = Pub(p.sessionId, "event", Stored')
              /\ extractLastAssistantMessage(p.event.transcript_path) = NULL
                   /\ p.event.response = NULL => Stored'.text = NULL
         /\ ~(p.source = "claude-code" /\ p.event.hook_event_name = "Stop") =>
              Stored' = normalize(p, clock)]_vars

\* ------------------------------------ one cron job whose awaited calls return
\* Every chat-client call and every tool call of a run returns or throws: the
\* handlers that continue a run are weakly fair.  A run is started only when
\* the ids it needs to reach its end are left, a bound of the model.
NextCronLive ==
  \/ nextId + 3 <= MaxIds /\ ScheduledFire("j1")
  \/ nextId + 3 <= MaxIds /\ TriggerJob("j1")
  \/ ScheduledSkip("j1")
  \/ TriggerRefused("j1")
  \/ \E r \in {"end_turn", "throw", "max_tokens"} : ChatReply("j1", r)
  \/ nextId + 2 * MaxTools + 1 <= MaxIds /\ ChatReply("j1", "tool_use")
  \/ ToolDone("j1")

\* the awaited chat-client call of the run of j returns or throws
ChatReturns(j) == \E r \in {"end_turn", "throw", "max_tokens"} : ChatReply(j, r)

\* Weak fairness of ChatReturns and of ToolDone, WF_vars(A) written out as
\* []<>~ENABLED <<A>>_vars \/ []<><<A>>_vars with the enabling condition
\* spelled out: a reply can be handled exactly when the run awaits the chat
\* client (pc = "chat"), a tool result exactly when it awaits a tool call
\* (pc = "tools").
SpecCronLive ==
  /\ InitCron
  /\ [][NextCronLive]_vars
  /\ ([]<>(cronRun["j1"].pc # "chat") \/ []<><<ChatReturns("j1")>>_vars)
  /\ ([]<>(cronRun["j1"].pc # "tools") \/ []<><<ToolDone("j1")>>_vars)

\* the session of the last started run of j has a session.end event
LastRunEnded(j) ==
  \E k \in 1..Len(events) :
    /\ events[k].sessionId = cronJobs[j].lastRunSessionId
    /\ events[k].type = "session.end"

\* the run of j is over: nothing in flight, final status, out of the running set
RunOver(j) ==
  /\ cronRun[j].pc = "idle"
  /\ LastRunEnded(j)
  /\ cronJobs[j].lastRunStatus \in {"success", "error"}
  /\ j \notin running

NextCronRuns ==
  \/ \E j \in AllJobs : ScheduledFire(j)
  \/ \E j \in AllJobs : TriggerJob(j)
  \/ \E j \in AllJobs, r \in {"end_turn", "throw"} : ChatReply(j, r)
  \/ TickMs

SpecCronRuns == InitCron /\ [][NextCronRuns]_vars

\* the number of runs of j that emitted session.end
Completed(j) ==
  Cardinality({k \in 1..Len(events) :
                 events[k].type = "session.end" /\ events[k].sessionId[1] = CronPrefix(j)})

\* C32: totalRuns of every cron job is the number of its runs that emitted
\* session.end, under any interleaving of scheduled firings and manual
\* triggers of any jobs; a completing run raises totalRuns by exactly one, and
\* lastRunSessionId is the session of the most recently started run
C32_TotalRunsCounted ==
  /\ [](\A j \in AllJobs : cronJobs[j].totalRuns = Completed(j))
  /\ [][\A j \in AllJobs :
          /\ Completed(j)' - Completed(j) \in {0, 1}
          /\ cronJobs'[j].totalRuns - cronJobs[j].totalRuns = Completed(j)' - Completed(j)
          /\ IF cronRun[j].pc = "idle" /\ cronRun'[j].pc # "idle"
             THEN cronJobs'[j].lastRunSessionId = cronRun'[j].sessionId
             ELSE cronJobs'[j].lastRunSessionId = cronJobs[j].lastRunSessionId]_vars

\* two jobs have completed one run each, the run of j2 started while the run
\* of j1 was in flight
C32_Witness ==
  /\ cronJobs["j1"].totalRuns = 1
  /\ cronJobs["j2"].totalRuns = 1
  /\ \E a, b, c \in 1..Len(events) :
       /\ a < b /\ b < c
       /\ events[a].type = "session.start" /\ events[a].sessionId[1] = CronPrefix("j1")
       /\ events[b].type = "session.start" /\ events[b].sessionId[1] = CronPrefix("j2")
       /\ events[c].type = "session.end" /\ events[c].sessionId[1] = CronPrefix("j1")

\* ----------------------- a cron job disabled or deleted while its timer stays
NextCronTable ==
  \/ ScheduledFire("j1")
  \/ ScheduledDropped("j1")
  \/ ScheduledSkip("j1")
  \/ TriggerJob("j1")
  \/ \E e \in BOOLEAN : UpdateCronJob("j1", e)
  \/ DeleteCronJob("j1")
  \/ \E r \in {"end_turn", "throw"} : ChatReply("j1", r)

SpecCronTable == InitCron /\ [][NextCronTable]_vars

\* C35: a scheduled firing starts a run only of a job that exists and is
\* enabled in the table when it fires; while a job is missing or disabled and
\* has no run in flight, no step but a manual trigger starts a session or emits
\* an event for it, and the running set stays as it was
C35_FiringReadsTable ==
  [][\A j \in AllJobs :
       /\ (cronRun[j].pc = "idle" /\ cronRun'[j].caller = "schedule")
            => (cronJobs[j].exists /\ cronJobs[j].enabled)
       /\ ( /\ ~(cronJobs[j].exists /\ cronJobs[j].enabled)
            /\ cronRun[j].pc = "idle"
            /\ cronRun'[j].caller # "trigger" )
            => /\ running' = running
               /\ sessions' = sessions /\ events' = events
               /\ inbox' = inbox /\ published' = published]_vars

\* a firing was dropped for a job deleted after a completed run
C35_Witness ==
  /\ ~cronJobs["j1"].exists
  /\ cronRun["j1"].dropped = 1
  /\ Completed("j1") = 1
  /\ running = {}

\* ------------------- ingest, a cron run and deletes on the sessions of the Store
NextStoreCron ==
  \/ \E p \in LivePayloads : nextId <= MaxLiveIds /\ PostIngest(p, NoCred)
  \/ TriggerJob("j1")
  \/ \E r \in {"end_turn", "throw"} : ChatReply("j1", r)
  \/ \E id \in LiveSessionIds : DeleteSessionById(id, NoCred)
  \/ DeleteAllSessions(NoCred)

SpecStoreCron == Init /\ [][NextStoreCron]_vars

\* ------------------------------ the stored status under ingest and a cron run
StatusPayloads ==
  { [source |-> "claude-code", sessionId |-> sid, event |-> k, user |-> NULL] :
      sid \in LiveSessionIds, k \in StoreKinds }

NextStatus ==
  \/ \E p \in StatusPayloads : nextId <= MaxLiveIds /\ PostIngest(p, NoCred)
  \/ TriggerJob("j1")
  \/ \E r \in {"end_turn", "throw"} : ChatReply("j1", r)

SpecStatus == Init /\ [][NextStatus]_vars

\* C36: every stored event's sessionId is the id of a row of the sessions
\* table, under any interleaving of ingest appends, cron-run appends,
\* deleteSession and clearAll; a session deleted while a cron run emits into it
\* is created again by the run's next event
C36_EventsHaveSession ==
  \A k \in 1..Len(events) : events[k].sessionId \in DOMAIN sessions

\* the session of a cron run was deleted while the run was in flight: the Store
\* holds the run's closing events and the session's row, not its session.start
C36_Witness ==
  /\ countDeletes(published) = 1
  /\ cronRun["j1"].pc = "idle"
  /\ CronSid \in DOMAIN sessions
  /\ \E k \in 1..Len(events) : events[k].sessionId = CronSid /\ events[k].type = "session.end"
  /\ \A k \in 1..Len(events) : events[k].type # "session.start"

\* the events a step appends to the session sid, in order
NewEventsOf(sid) ==
  SelectSeq(SubSeq(events', Len(events) + 1, Len(events')), LAMBDA e : e.sessionId = sid)

\* C38: a stored status of error is kept by every later event except
\* session.end, which sets completed; a cron run whose chat loop throws leaves
\* its session with stored status completed, its session.end coming after its
\* error event
C38_ErrorKeptUntilEnd ==
  [][\A sid \in LiveSessionIds :
       LET new == NewEventsOf(sid)
       IN /\ ( /\ sid \in DOMAIN sessions
               /\ sessions[sid].status = "error"
               /\ new # <<>> )
               => sessions'[sid].status =
                    IF new[Len(new)].type = "session.end" THEN "completed" ELSE "error"
          /\ (\E k \in 1..Len(new) : new[k].source = "cron" /\ new[k].category = "error")
               => sessions'[sid].status = "completed"]_vars

\* S1 kept the status error through a later Stop event, and the cron session
\* is completed after a run that threw
C38_Witness ==
  /\ S1 \in DOMAIN sessions /\ sessions[S1].status = "error"
  /\ \E a, b \in 1..Len(events) :
       /\ a < b
       /\ events[a].sessionId = S1 /\ events[a].category = "error"
       /\ events[b].sessionId = S1 /\ events[b].type = "message.assistant"
  /\ CronSid \in DOMAIN sessions /\ sessions[CronSid].status = "completed"
  /\ \E k \in 1..Len(events) : events[k].source = "cron" /\ events[k].category = "error"

\* the events of the session id in the order they were appended
AppendedTo(id) == SelectSeq(events, LAMBDA e : e.sessionId = id)

\* C34: for every session with at least one event, lastEventType as returned by
\* getSession and by listSessions is the type of the event appended last to the
\* session, the event whose timestamp is the session's lastEventTime, whatever
\* the timestamps of the events
C34_LastEventTypeIsLatest ==
  /\ \A id \in DOMAIN sessions :
       LET appended == AppendedTo(id)
       IN appended # <<>> =>
            /\ getSession(id).lastEventType = appended[Len(appended)].type
            /\ getSession(id).lastEventTime = appended[Len(appended)].timestamp
  /\ \A i \in 1..Len(listSessions) :
       LET appended == AppendedTo(listSessions[i].id)
       IN appended # <<>> => listSessions[i].lastEventType = appended[Len(appended)].type

C37_AnswersReceivedCounts ==
  /\ [][\A id \in DOMAIN insights :
          insights'[id].answersReceived >= insights[id].answersReceived]_vars
  /\ [](\A id \in DOMAIN insights :
          ( /\ \A r \in refining : r.insight # id
            /\ answeredCount(questions, id) > 0 )
            => insights[id].answersReceived = answeredCount(questions, id))

\* ----------------------------------------------- calls of the source manager
NextSources ==
  \/ \E c \in 1..MaxCalls, e \in BOOLEAN : AddSource(c, e)
  \/ \E c \in 1..MaxCalls, e \in BOOLEAN : ToggleSource(c, e)
  \/ \E c \in 1..MaxCalls : UpdateSource(c)
  \/ \E c \in 1..MaxCalls : RemoveSource(c)
  \/ \E c \in 1..MaxCalls : StartManager(c)
  \/ \E c \in 1..MaxCalls : StopManager(c)
  \/ \E c \in 1..MaxCalls : StopReturns(c)
  \/ \E c \in 1..MaxCalls, ok \in BOOLEAN : StartReturns(c, ok)

SpecSources == Init /\ [][NextSources]_vars

\* C39: at any time every started listener of the data source is the one in
\* the listeners map, so at most one is started; and with no call of the source
\* manager in flight the listener in the map is a started one: no stopped
\* listener is left in the map, also when a listener's start fails
C39_OneListenerInMap ==
  /\ sourceMgr.live \subseteq {sourceMgr.map}
  /\ (\A c \in 1..MaxCalls : sourceMgr.calls[c].pc = "idle")
       => (sourceMgr.map # 0 => sourceMgr.map \in sourceMgr.live)

====
